---- MODULE Spec2Model ----
(***************************************************************************)
(* Model of vesta::UniverseRenderer (thirdparty/vesta/UniverseRenderer.cpp) *)
(*                                                                         *)
(* The renderer is a single-threaded object.  Its state is the set of      *)
(* member fields; every public entry point is one action.  Distances are   *)
(* C++ floats in the source; here a distance is a number m * 10000^e with   *)
(* an integer mantissa m in 1..9999 (or zero), which makes comparison, the  *)
(* near/far ratio tests and the multiplication and division by             *)
(* MaxFarNearRatio exact.                                                   *)
(***************************************************************************)
EXTENDS Integers, Sequences, FiniteSets, TLC

\* ------------------------------------------------------------------------
\* Bounds of the model
\* ------------------------------------------------------------------------

\* Largest number of entities in the universe handed to the renderer.
MaxEntities == 3

\* ------------------------------------------------------------------------
\* Program constants
\* ------------------------------------------------------------------------

\* static const float MinimumNearPlaneDistance = 0.00001f, as mantissa and
\* exponent of a distance (1000 * 10000^-2)
MinimumNearPlaneDistance == <<1000, -2>>

\* static const float MaximumFarPlaneDistance = 1.0e12, as mantissa and
\* exponent of a distance (1 * 10000^3)
MaximumFarPlaneDistance == <<1, 3>>

\* static const float MinimumNearFarRatio = 0.001f, as numerator/denominator
MinimumNearFarRatio == <<1, 1000>>

\* static const float PreferredNearFarRatio = 0.002f, as numerator/denominator
PreferredNearFarRatio == <<2, 1000>>

\* const float MaxFarNearRatio = 10000.0f (local constant of renderView)
MaxFarNearRatio == 10000

\* ------------------------------------------------------------------------
\* Distances (C++ float)
\* ------------------------------------------------------------------------

\* The distance m * MaxFarNearRatio^e; m is in 1..9999, or 0 for zero.
Dist(m, e) == [m |-> m, e |-> IF m = 0 THEN 0 ELSE e]

\* The sign of a distance: a signed distance (the depth of a point behind the
\* camera plane) has a negative mantissa.
Sign(a) == IF a.m > 0 THEN 1 ELSE IF a.m < 0 THEN -1 ELSE 0

\* a < b
Less(a, b) ==
    IF Sign(a) # Sign(b) THEN Sign(a) < Sign(b)
    ELSE IF Sign(a) = 0 THEN FALSE
    ELSE IF Sign(a) = 1 THEN a.e < b.e \/ (a.e = b.e /\ a.m < b.m)
    ELSE b.e < a.e \/ (a.e = b.e /\ a.m < b.m)

\* std::min(a, b) and std::max(a, b)
Min(a, b) == IF Less(b, a) THEN b ELSE a
Max(a, b) == IF Less(a, b) THEN b ELSE a

\* a * MaxFarNearRatio and a / MaxFarNearRatio
TimesMaxFarNearRatio(a) == Dist(a.m, a.e + 1)
OverMaxFarNearRatio(a) == Dist(a.m, a.e - 1)

\* A mantissa outside -9999..9999 is rounded to the nearest representable
\* value, as a float result is rounded to its 24 bits.
RECURSIVE Norm(_, _)
Norm(m, e) ==
    IF m > -MaxFarNearRatio /\ m < MaxFarNearRatio THEN Dist(m, e)
    ELSE IF m > 0 THEN Norm((m + MaxFarNearRatio \div 2) \div MaxFarNearRatio, e + 1)
    ELSE Norm(-((-m + MaxFarNearRatio \div 2) \div MaxFarNearRatio), e + 1)

\* a + b
Plus(a, b) ==
    IF a.m = 0 THEN b
    ELSE IF b.m = 0 THEN a
    ELSE IF a.e = b.e THEN Norm(a.m + b.m, a.e)
    ELSE LET hi == IF a.e > b.e THEN a ELSE b
             lo == IF a.e > b.e THEN b ELSE a
         IN IF lo.e = hi.e - 1
            THEN Norm(hi.m * MaxFarNearRatio + lo.m, hi.e - 1)
            ELSE hi

\* a * ratio for a >= 0 and a ratio <<numerator, denominator>> with
\* numerator <= 2 and denominator <= 1000.
Scale(a, ratio) ==
    IF (a.m * ratio[1]) % ratio[2] = 0
    THEN Norm((a.m * ratio[1]) \div ratio[2], a.e)
    ELSE Norm((a.m * ratio[1] * MaxFarNearRatio) \div ratio[2], a.e - 1)

\* nearD / farD < ratio for a ratio <<numerator, denominator>> with
\* numerator <= denominator <= 1000, and farD > 0:
\* nearD * denominator < numerator * farD.
ratioLess(nearD, farD, ratio) ==
    IF nearD.m = 0 THEN TRUE
    ELSE IF nearD.e = farD.e THEN nearD.m * ratio[2] < ratio[1] * farD.m
    ELSE IF nearD.e = farD.e - 1
         THEN nearD.m * ratio[2] < ratio[1] * farD.m * MaxFarNearRatio
    ELSE nearD.e < farD.e

\* The null pointer
NULL == "NULL"

\* enum RenderStatus
RenderStatus ==
    {"RenderOk", "RendererUninitialized", "RendererBadParameter",
     "RenderViewSetAlreadyStarted", "RenderNoViewSet"}

\* enum Geometry::ClippingPolicy
ClippingPolicy ==
    {"PreserveDepthPrecision", "PreventClipping", "SplitToPreventClipping"}

\* ------------------------------------------------------------------------
\* The environment: universes, entities, projections
\* ------------------------------------------------------------------------

\* The Universe objects the application may pass to beginViewSet: "U1" holds
\* the scene, "U2" is a universe without entities.
Universes == {"U1", "U2"}

\* A projected size in pixels, as <<numerator, denominator>>: p < q.
sizeLess(p, q) == p[1] * q[2] < q[1] * p[2]

\* What the renderer reads from one entity for the camera of the view (the
\* visualizers of an entity are not modelled).
\*   geometry            entity->geometry() is non-null
\*   boundingSphereRadius, clippingPolicy, isShadowCaster, isShadowReceiver,
\*   isOpaque            the properties of the geometry
\*   depth               -cameraSpacePosition.z(), the signed distance of the
\*                       entity's centre from the camera plane
\*   nearPlaneDistance   the value geometry->nearPlaneDistance() returns for
\*                       the camera
\*   projectedSize       (boundingSphereRadius / distance) / pixelSize
\*   lightSource         entity->lightSource() is non-null
\*   lightProjectedSize  (range / distance) / pixelSize of the light source
\*   lightInFrustum      the sphere of the light's range meets the view frustum
\*   lightShadowCaster   lightSource->isShadowCaster()
\*   visibleFrom         the entity is visible at every time >= visibleFrom
\* Entity builds an opaque entity of ten pixels that neither casts nor
\* receives shadows and whose light source, if it has one, is a shadow caster
\* in view.
Entity(g, radius, depth, nearPlane, policy, light, from) ==
    [geometry |-> g, boundingSphereRadius |-> radius, depth |-> depth,
     nearPlaneDistance |-> nearPlane, clippingPolicy |-> policy,
     projectedSize |-> <<10, 1>>, isShadowCaster |-> FALSE, isShadowReceiver |-> FALSE,
     isOpaque |-> TRUE,
     lightSource |-> light, lightProjectedSize |-> <<10, 1>>,
     lightInFrustum |-> TRUE, lightShadowCaster |-> light,
     visibleFrom |-> from]

\* The kinds of entity scenes are built from.  With the near plane
\* adjustment 1/2 of the projections below, addVisibleItem computes the near
\* and far distances (1, 3), (2, 3), (5, 6), (5000, 50000), (1, 1500),
\* (3, 3), (1, 0), (1, 3) and (2, 50000) for the nine entities with geometry.
\* The third and the ninth are translucent.
EntityCatalogue ==
    << Entity(TRUE, Dist(1, 0), Dist(2, 0), Dist(2, 0), "PreserveDepthPrecision", FALSE, 0),
       Entity(TRUE, Dist(1, 0), Dist(2, 0), Dist(4, 0), "PreserveDepthPrecision", TRUE, 0),
       [Entity(TRUE, Dist(1, 0), Dist(5, 0), Dist(10, 0), "PreserveDepthPrecision", FALSE, 0)
           EXCEPT !.isOpaque = FALSE],
       Entity(TRUE, Dist(1, 1), Dist(4, 1), Dist(1, 1), "PreserveDepthPrecision", TRUE, 1),
       Entity(TRUE, Dist(500, 0), Dist(1000, 0), Dist(2, 0), "PreventClipping", FALSE, 0),
       Entity(TRUE, Dist(1, 0), Dist(2, 0), Dist(6, 0), "PreserveDepthPrecision", FALSE, 0),
       Entity(TRUE, Dist(1, 0), Dist(-1, 0), Dist(2, 0), "PreventClipping", FALSE, 0),
       Entity(TRUE, Dist(1, 0), Dist(2, 0), Dist(2, 0), "SplitToPreventClipping", FALSE, 0),
       [Entity(TRUE, Dist(1, 1), Dist(4, 1), Dist(4, 0), "SplitToPreventClipping", FALSE, 0)
           EXCEPT !.isOpaque = FALSE],
       Entity(FALSE, Dist(0, 0), Dist(0, 0), Dist(0, 0), "PreserveDepthPrecision", TRUE, 0) >>

\* The entity lists universe "U1" may hold: up to MaxEntities entities, in
\* catalogue order (the depth sort makes the renderer's lists independent of
\* the order of the entities up to the order of equally distant items, and
\* SortVisibleItems yields every such order).
Scenes ==
    UNION {{[i \in 1..n |-> EntityCatalogue[f[i]]] :
               f \in {g \in [1..n -> 1..Len(EntityCatalogue)] :
                         \A i \in 1..(n - 1) : g[i] <= g[i + 1]}} :
           n \in 0..MaxEntities}

\* The simulation times passed to beginViewSet.
Times == {0, 1}

\* PlanarProjection::Chirality
Chirality == {"LeftHanded", "RightHanded"}

\* A PlanarProjection: its near and far plane distances, its chirality, and
\* nearAdjust, the value of cos(fovY / 2) / sqrt(1 + aspectRatio^2) that
\* renderView computes from it and the viewport (1/2 for a field of view of
\* 90 degrees and a square viewport).
PlanarProjection(nearD, farD, chirality) ==
    [nearDistance |-> nearD, farDistance |-> farD, chirality |-> chirality,
     nearAdjust |-> <<1, 2>>]

\* The projections passed to renderView.  The first is the projection of
\* renderView(lighting, observer, ...), from MinimumNearPlaneDistance
\* (0.00001) to MaximumFarPlaneDistance (1.0e12); the second is a narrow
\* projection.
Projections ==
    { PlanarProjection(Dist(1000, -2), Dist(1, 3), "RightHanded"),
      PlanarProjection(Dist(2, 0), Dist(5, 0), "RightHanded") }

\* Value of the projection variable before the first successful renderView.
NoProjection == PlanarProjection(Dist(0, 0), Dist(0, 0), "RightHanded")

\* ------------------------------------------------------------------------
\* State
\* ------------------------------------------------------------------------
VARIABLES
    universe,                  \* contents of each Universe object: its entity list
    stdSort,                   \* how the build's std::sort orders equivalent light sources
    m_renderContext,           \* TRUE iff the render context pointer is non-null
    m_universe,                \* the open universe, or NULL
    m_currentTime,
    m_lightSources,            \* master light list of the view set
    m_shadowsEnabled,
    m_shadowMaps,              \* pool of directional shadow maps: "valid" or "invalid" framebuffers
    m_omniShadowMaps,          \* pool of cubic shadow maps
    m_visibleLightSources,
    m_visibleItems,
    m_splittableItems,
    m_depthBufferSpans,        \* raw spans (splitDepthBuffer)
    m_mergedDepthBufferSpans,  \* final span list of the last renderView
    m_renderSurface,
    m_renderViewport,
    m_renderColorMask,
    m_depthRangeFront,
    m_depthRangeBack,
    graphics,                  \* state of the GL context and the RenderContext
    coalescedSpans,            \* m_mergedDepthBufferSpans as coalesceDepthBuffer left it
    projection,                \* projection argument of the last successful renderView
    spanLog,                   \* what the last call that rendered did for each span of each view
    lastCall,                  \* the last entry point called and the status it returned
    lastBracket                \* the last successful beginViewSet/endViewSet ("none" at start)

vars ==
    <<universe, stdSort, m_renderContext, m_universe, m_currentTime, m_lightSources,
      m_shadowsEnabled, m_shadowMaps, m_omniShadowMaps, m_visibleLightSources,
      m_visibleItems, m_splittableItems, m_depthBufferSpans,
      m_mergedDepthBufferSpans, m_renderSurface, m_renderViewport, m_renderColorMask,
      m_depthRangeFront, m_depthRangeBack, graphics, coalescedSpans, projection,
      spanLog, lastCall, lastBracket>>

viewSetVars == <<m_universe, m_currentTime, m_lightSources>>

\* The shadow settings and the shadow map pools.
shadowVars == <<m_shadowsEnabled, m_shadowMaps, m_omniShadowMaps>>

\* What a renderView call writes.
viewVars ==
    <<m_visibleLightSources, m_visibleItems, m_splittableItems, m_depthBufferSpans,
      m_mergedDepthBufferSpans, m_renderSurface, m_renderViewport, m_renderColorMask,
      m_depthRangeFront, m_depthRangeBack, graphics, coalescedSpans, projection, spanLog>>

\* A record of an entry point call: its name, the universe and time arguments
\* (beginViewSet only, otherwise NULL and 0) and the value it returned.
Call(op, status) == [op |-> op, status |-> status, universe |-> NULL, tsec |-> 0]
BeginCall(u, tsec, status) ==
    [op |-> "beginViewSet", status |-> status, universe |-> u, tsec |-> tsec]

\* The implementations of std::sort: the order in which it leaves elements
\* that the predicate does not order is unspecified, but it is the same
\* every time a build sorts the same sequence.  One implementation keeps
\* such elements in their order, the other reverses them.
SortImplementations == {"keepsOrder", "reversesOrder"}

\* glDepthRange(0.0f, 1.0f); depth range values are fractions
\* <<numerator, denominator>>.
FullDepthRange == <<<<0, 1>>, <<1, 1>>>>

\* The state of the GL context (its initial values) and of the RenderContext
\* as far as the renderer changes it: the front face winding, the culled
\* face, the color mask, the viewport, the depth range, the bound
\* framebuffer, the renderer output, the depths of the projection and
\* modelview stacks (relative to their depth when the context is created)
\* and the shadow maps set in the render context.
InitialGraphics ==
    [frontFace |-> "GL_CCW", cullFace |-> "GL_BACK",
     colorMask |-> <<TRUE, TRUE, TRUE, TRUE>>,
     viewport |-> "window", depthRange |-> FullDepthRange,
     framebuffer |-> "backBuffer", rendererOutput |-> "FragmentColor",
     projectionStack |-> 0, modelViewStack |-> 0,
     shadowMaps |-> {}, omniShadowMaps |-> {}]

\* UniverseRenderer::UniverseRenderer(): the renderer after construction.
\* m_depthRangeFront and m_depthRangeBack are not initialized; they are
\* written by setDepthRange before anything reads them.
InitRenderer ==
    /\ m_renderContext = FALSE
    /\ m_universe = NULL
    /\ m_currentTime = 0
    /\ m_lightSources = <<>>
    /\ m_shadowsEnabled = FALSE
    /\ m_shadowMaps = <<>>
    /\ m_omniShadowMaps = <<>>
    /\ m_visibleLightSources = <<>>
    /\ m_visibleItems = <<>>
    /\ m_splittableItems = <<>>
    /\ m_depthBufferSpans = <<>>
    /\ m_mergedDepthBufferSpans = <<>>
    /\ m_renderSurface = NULL
    /\ m_renderViewport = "1x1"
    /\ m_renderColorMask = <<FALSE, FALSE, FALSE, FALSE>>
    /\ m_depthRangeFront = FullDepthRange[1]
    /\ m_depthRangeBack = FullDepthRange[2]
    /\ graphics = InitialGraphics
    /\ coalescedSpans = <<>>
    /\ projection = NoProjection
    /\ spanLog = <<>>
    /\ lastCall = Call("UniverseRenderer", "constructed")
    /\ lastBracket = "none"

\* A renderer for each scene of the entity catalogue, in a build whose sort
\* keeps the order of equivalent elements.
Init ==
    /\ universe \in [Universes -> Scenes]
    /\ universe["U2"] = <<>>
    /\ stdSort = "keepsOrder"
    /\ InitRenderer

\* ------------------------------------------------------------------------
\* Depth sorting
\* ------------------------------------------------------------------------

\* static bool visibleItemPredicate(item0, item1)
visibleItemPredicate(item0, item1) == Less(item0.farDistance, item1.farDistance)

\* The orders in which the elements of a set of indices can be arranged.
RECURSIVE Arrangements(_)
Arrangements(indices) ==
    IF indices = {} THEN {<<>>}
    ELSE UNION {{<<first>> \o rest : rest \in Arrangements(indices \ {first})} :
                   first \in indices}

IndexPermutations(n) == Arrangements(1..n)

\* std::sort(first, last, visibleItemPredicate): the result is a permutation
\* of the input in which no element is ordered before an earlier one.  The
\* order of equivalent elements is unspecified, so every such permutation is
\* a possible result.
SortVisibleItems(items) ==
    {sorted \in {[i \in 1..Len(items) |-> items[f[i]]] : f \in IndexPermutations(Len(items))} :
        \A i, j \in 1..Len(sorted) : i < j => ~visibleItemPredicate(sorted[j], sorted[i])}

\* ------------------------------------------------------------------------
\* Visible item collection
\* ------------------------------------------------------------------------

\* Entity::isVisible(t)
isVisible(entity, t) == t >= entity.visibleFrom

\* The far distance addVisibleItem computes: the signed distance from the
\* camera plane to the most distant part of the entity.
itemFarDistance_withoutRadius(entity) == entity.depth
itemFarDistance(entity) == Plus(entity.depth, entity.boundingSphereRadius)

\* The near distance addVisibleItem computes.
itemNearDistance(entity, nearAdjust) ==
    LET nearDistance == entity.nearPlaneDistance
        boundingRadius == entity.boundingSphereRadius
        clamped ==
            IF entity.clippingPolicy = "PreserveDepthPrecision"
            THEN Max(nearDistance,
                     Scale(Scale(boundingRadius, MinimumNearFarRatio), <<2, 1>>))
            ELSE Max(nearDistance,
                     Dist(MinimumNearPlaneDistance[1], MinimumNearPlaneDistance[2]))
    IN Scale(clamped, nearAdjust)

\* UniverseRenderer::addVisibleItem: lists is <<visible items, splittable
\* items>>; entityIndex identifies the entity (the VisibleItem's entity
\* pointer).
addVisibleItem_keepsEmptyRange(lists, entityIndex, entity, nearAdjust) ==
    LET farDistance == itemFarDistance(entity)
        nearDistance == itemNearDistance(entity, nearAdjust)
    IN IF Less(Dist(0, 0), farDistance) /\ ~Less(farDistance, nearDistance)
       THEN LET visibleItem ==
                    [entity |-> entityIndex,
                     clippingPolicy |-> entity.clippingPolicy,
                     nearDistance |-> nearDistance,
                     farDistance |-> farDistance]
            IN IF entity.clippingPolicy = "SplitToPreventClipping"
               THEN <<lists[1], Append(lists[2], visibleItem)>>
               ELSE <<Append(lists[1], visibleItem), lists[2]>>
       ELSE lists
addVisibleItem(lists, entityIndex, entity, nearAdjust) ==
    LET farDistance == itemFarDistance(entity)
        nearDistance == itemNearDistance(entity, nearAdjust)
    IN IF Less(Dist(0, 0), farDistance) /\ Less(nearDistance, farDistance)
       THEN LET visibleItem ==
                    [entity |-> entityIndex,
                     clippingPolicy |-> entity.clippingPolicy,
                     nearDistance |-> nearDistance,
                     farDistance |-> farDistance]
            IN IF entity.clippingPolicy = "SplitToPreventClipping"
               THEN <<lists[1], Append(lists[2], visibleItem)>>
               ELSE <<Append(lists[1], visibleItem), lists[2]>>
       ELSE lists

\* The size cull of renderView: geometry smaller than half a pixel is not
\* drawn, and objects without geometry are always culled.
sizeCull_inclusive(entity) ==
    IF entity.geometry THEN ~sizeLess(<<1, 2>>, entity.projectedSize) ELSE TRUE
sizeCull(entity) ==
    IF entity.geometry THEN sizeLess(entity.projectedSize, <<1, 2>>) ELSE TRUE

\* The entity loop of renderView: entities[1..n] have been scanned.
RECURSIVE collectVisibleItems(_, _, _, _)
collectVisibleItems(entities, t, n, nearAdjust) ==
    IF n = 0 THEN <<<<>>, <<>>>>
    ELSE LET lists == collectVisibleItems(entities, t, n - 1, nearAdjust)
             entity == entities[n]
         IN IF isVisible(entity, t) /\ ~sizeCull(entity)
            THEN addVisibleItem(lists, n, entity, nearAdjust)
            ELSE lists

\* ------------------------------------------------------------------------
\* Depth buffer partitioning
\* ------------------------------------------------------------------------

DepthBufferSpan(backItemIndex, itemCount, nearD, farD) ==
    [backItemIndex |-> backItemIndex, itemCount |-> itemCount,
     nearDistance |-> nearD, farDistance |-> farD]

\* The loop of splitDepthBuffer, at (C++, zero-based) item index i with the
\* spans produced so far.
RECURSIVE splitLoop(_, _, _)
splitLoop_noEmptySpan(items, i, spans) ==
    IF i < 0 THEN spans
    ELSE LET item == items[i + 1]
         IN IF spans = <<>>
            THEN splitLoop(items, i - 1,
                           <<DepthBufferSpan(i, 1, item.nearDistance, item.farDistance)>>)
            ELSE LET span == spans[Len(spans)]
                     isDisjoint == Less(item.farDistance, span.nearDistance)
                     newSpan == DepthBufferSpan(i, 1, item.nearDistance, item.farDistance)
                 IN IF isDisjoint
                    THEN splitLoop(items, i - 1, Append(spans, newSpan))
                    ELSE splitLoop(items, i - 1,
                             [spans EXCEPT ![Len(spans)] =
                                 [@ EXCEPT !.itemCount = @ + 1,
                                           !.nearDistance =
                                               IF Less(item.nearDistance, @)
                                               THEN item.nearDistance ELSE @]])

splitLoop_overlappingItemNotCounted(items, i, spans) ==
    IF i < 0 THEN spans
    ELSE LET item == items[i + 1]
         IN IF spans = <<>>
            THEN splitLoop(items, i - 1,
                           <<DepthBufferSpan(i, 1, item.nearDistance, item.farDistance)>>)
            ELSE LET span == spans[Len(spans)]
                     isDisjoint == Less(item.farDistance, span.nearDistance)
                     emptySpan == DepthBufferSpan(i, 0, item.farDistance, span.nearDistance)
                     newSpan == DepthBufferSpan(i, 1, item.nearDistance, item.farDistance)
                 IN IF isDisjoint
                    THEN splitLoop(items, i - 1, spans \o <<emptySpan, newSpan>>)
                    ELSE splitLoop(items, i - 1,
                             [spans EXCEPT ![Len(spans)] =
                                 [@ EXCEPT !.nearDistance =
                                               IF Less(item.nearDistance, @)
                                               THEN item.nearDistance ELSE @]])

splitLoop(items, i, spans) ==
    IF i < 0 THEN spans
    ELSE LET item == items[i + 1]
         IN IF spans = <<>>
            THEN splitLoop(items, i - 1,
                           <<DepthBufferSpan(i, 1, item.nearDistance, item.farDistance)>>)
            ELSE LET span == spans[Len(spans)]
                     isDisjoint == Less(item.farDistance, span.nearDistance)
                     emptySpan == DepthBufferSpan(i, 0, item.farDistance, span.nearDistance)
                     newSpan == DepthBufferSpan(i, 1, item.nearDistance, item.farDistance)
                 IN IF isDisjoint
                    THEN splitLoop(items, i - 1, spans \o <<emptySpan, newSpan>>)
                    ELSE splitLoop(items, i - 1,
                             [spans EXCEPT ![Len(spans)] =
                                 [@ EXCEPT !.itemCount = @ + 1,
                                           !.nearDistance =
                                               IF Less(item.nearDistance, @)
                                               THEN item.nearDistance ELSE @]])

\* UniverseRenderer::splitDepthBuffer
splitDepthBuffer(items) == splitLoop(items, Len(items) - 1, <<>>)

\* The inner loop of coalesceDepthBuffer: returns <<j, itemCount>>.
RECURSIVE coalesceRun(_, _, _, _)
coalesceRun_dropsItemCount(spans, farD, j, itemCount) ==
    IF j < Len(spans) - 1
       /\ ~ratioLess(spans[j + 2].nearDistance, farD, PreferredNearFarRatio)
    THEN coalesceRun(spans, farD, j + 1, itemCount)
    ELSE <<j, itemCount>>

coalesceRun_ignoresRatio(spans, farD, j, itemCount) ==
    IF j < Len(spans) - 1
    THEN coalesceRun(spans, farD, j + 1, itemCount + spans[j + 2].itemCount)
    ELSE <<j, itemCount>>

coalesceRun_stopsOneEarly(spans, farD, j, itemCount) ==
    IF j < Len(spans) - 2
       /\ ~ratioLess(spans[j + 2].nearDistance, farD, PreferredNearFarRatio)
    THEN coalesceRun(spans, farD, j + 1, itemCount + spans[j + 2].itemCount)
    ELSE <<j, itemCount>>

coalesceRun_thresholdTooLow(spans, farD, j, itemCount) ==
    IF j < Len(spans) - 1
       /\ ~ratioLess(spans[j + 2].nearDistance, farD, <<1, 100000>>)
    THEN coalesceRun(spans, farD, j + 1, itemCount + spans[j + 2].itemCount)
    ELSE <<j, itemCount>>

coalesceRun(spans, farD, j, itemCount) ==
    IF j < Len(spans) - 1
       /\ ~ratioLess(spans[j + 2].nearDistance, farD, PreferredNearFarRatio)
    THEN coalesceRun(spans, farD, j + 1, itemCount + spans[j + 2].itemCount)
    ELSE <<j, itemCount>>

\* The outer loop of coalesceDepthBuffer, at (zero-based) raw span index i.
RECURSIVE coalesceLoop(_, _, _)
coalesceLoop_nearOfFirst(spans, i, merged) ==
    IF i < Len(spans)
    THEN LET farD == spans[i + 1].farDistance
             run == coalesceRun(spans, farD, i, spans[i + 1].itemCount)
             j == run[1]
             span == DepthBufferSpan(spans[i + 1].backItemIndex, run[2],
                                     spans[i + 1].nearDistance, farD)
         IN coalesceLoop(spans, j + 1, Append(merged, span))
    ELSE merged

coalesceLoop(spans, i, merged) ==
    IF i < Len(spans)
    THEN LET farD == spans[i + 1].farDistance
             run == coalesceRun(spans, farD, i, spans[i + 1].itemCount)
             j == run[1]
             span == DepthBufferSpan(spans[i + 1].backItemIndex, run[2],
                                     spans[j + 1].nearDistance, farD)
         IN coalesceLoop(spans, j + 1, Append(merged, span))
    ELSE merged

\* UniverseRenderer::coalesceDepthBuffer
coalesceDepthBuffer(spans) == coalesceLoop(spans, 0, <<>>)

\* The while loop of renderView that appends front spans.
RECURSIVE addFrontSpans(_, _)
addFrontSpans_atMostOne(merged, proj) ==
    IF Less(proj.nearDistance, merged[Len(merged)].nearDistance)
    THEN LET farD == merged[Len(merged)].nearDistance
             front == DepthBufferSpan(0, 0,
                          Max(proj.nearDistance, OverMaxFarNearRatio(farD)), farD)
         IN Append(merged, front)
    ELSE merged

addFrontSpans_ignoresCameraNear(merged, proj) ==
    IF Less(proj.nearDistance, merged[Len(merged)].nearDistance)
    THEN LET farD == merged[Len(merged)].nearDistance
             front == DepthBufferSpan(0, 0, OverMaxFarNearRatio(farD), farD)
         IN addFrontSpans(Append(merged, front), proj)
    ELSE merged

addFrontSpans(merged, proj) ==
    IF Less(proj.nearDistance, merged[Len(merged)].nearDistance)
    THEN LET farD == merged[Len(merged)].nearDistance
             front == DepthBufferSpan(0, 0,
                          Max(proj.nearDistance, OverMaxFarNearRatio(farD)), farD)
         IN addFrontSpans(Append(merged, front), proj)
    ELSE merged

\* The block of renderView that adds depth spans for splittable geometry.
addSplittableSpans(raw, merged, splittable, proj) ==
    IF splittable # <<>>
    THEN LET furthestDistance == Min(splittable[1].farDistance, proj.farDistance)
             withBack ==
                 IF raw = <<>>
                 THEN Append(merged,
                          DepthBufferSpan(0, 0,
                              Max(proj.nearDistance, OverMaxFarNearRatio(proj.farDistance)),
                              proj.farDistance))
                 ELSE IF Less(merged[1].farDistance, furthestDistance)
                      THEN <<DepthBufferSpan(0, 0, merged[1].farDistance, furthestDistance)>>
                           \o merged
                      ELSE merged
             withFront == addFrontSpans(withBack, proj)
             back == DepthBufferSpan(0, 0, withFront[1].farDistance,
                                     TimesMaxFarNearRatio(withFront[1].farDistance))
         IN <<back>> \o withFront
    ELSE merged

\* ------------------------------------------------------------------------
\* Visible light sources
\* ------------------------------------------------------------------------

\* The entity whose light source a light list entry points to (an entry
\* other than the Sun's).
lightEntity(light) == universe[m_universe][light.lightSource]

\* The test of buildVisibleLightSourceList: an entity's light is culled when
\* the region it affects is smaller than a pixel, and otherwise when that
\* region lies outside the view frustum.  The Sun is never culled.
lightCull(light) ==
    IF light.lightSource # 0
    THEN IF sizeLess(lightEntity(light).lightProjectedSize, <<1, 1>>)
         THEN TRUE
         ELSE ~lightEntity(light).lightInFrustum
    ELSE FALSE

\* shadow0 and shadow1 of lightCastsShadowsPredicate: 1 for the Sun and for
\* a light source that casts shadows, otherwise 0.
castsShadows(light) ==
    IF light.lightSource = 0 \/ lightEntity(light).lightShadowCaster THEN 1 ELSE 0

\* static bool lightCastsShadowsPredicate(light0, light1)
lightCastsShadowsPredicate(light0, light1) == castsShadows(light0) > castsShadows(light1)

Reverse(seq) == [i \in 1..Len(seq) |-> seq[Len(seq) + 1 - i]]

\* std::sort(first, last, lightCastsShadowsPredicate): the entries that are
\* ordered before every other entry come first; entries the predicate does
\* not order are left as the build's implementation of std::sort leaves them.
SortLightSources(lights) ==
    LET first == SelectSeq(lights,
                    LAMBDA l : \E i \in 1..Len(lights) :
                                   lightCastsShadowsPredicate(l, lights[i]))
        rest == SelectSeq(lights,
                    LAMBDA l : \A i \in 1..Len(lights) :
                                   ~lightCastsShadowsPredicate(l, lights[i]))
    IN IF stdSort = "keepsOrder"
       THEN first \o rest
       ELSE Reverse(first) \o Reverse(rest)

\* UniverseRenderer::buildVisibleLightSourceList; previous is the content of
\* m_visibleLightSources before the call.
buildVisibleLightSourceList_withoutClear(previous) ==
    previous \o SortLightSources(SelectSeq(m_lightSources, LAMBDA l : ~lightCull(l)))
buildVisibleLightSourceList(previous) ==
    SortLightSources(SelectSeq(m_lightSources, LAMBDA l : ~lightCull(l)))

\* ------------------------------------------------------------------------
\* Shadow passes
\* ------------------------------------------------------------------------

\* Framebuffer::supported(): the GL implementation has framebuffer objects.
FramebufferSupported == TRUE

\* The framebuffers of the two shadow map pools, by pool index.
ShadowMapNames == <<"shadowMap0", "shadowMap1">>
OmniShadowMapNames == <<"omniShadowMap0", "omniShadowMap1">>

\* The geometries of the items of a span: the geometry of
\* m_visibleItems[span.backItemIndex - i] for 0 <= i < span.itemCount.
spanGeometries(items, span) ==
    {universe[m_universe][items[span.backItemIndex - i + 1].entity] :
        i \in 0..(span.itemCount - 1)}

\* static void beginShadowRendering()
beginShadowRendering(g) ==
    [g EXCEPT !.colorMask = <<FALSE, FALSE, FALSE, FALSE>>, !.cullFace = "GL_FRONT"]

\* static void beginCubicShadowRendering()
beginCubicShadowRendering(g) ==
    [g EXCEPT !.colorMask = <<TRUE, FALSE, FALSE, FALSE>>, !.cullFace = "GL_FRONT"]

\* void finishShadowRendering(renderSurface, colorMask)
finishShadowRendering_keepsShadowMapBound(g, renderSurface, colorMask) ==
    [g EXCEPT !.colorMask = colorMask,
              !.cullFace = "GL_BACK"]
finishShadowRendering(g, renderSurface, colorMask) ==
    [g EXCEPT !.framebuffer = IF renderSurface # NULL THEN renderSurface ELSE "backBuffer",
              !.colorMask = colorMask,
              !.cullFace = "GL_BACK"]

\* UniverseRenderer::setupShadowRendering(shadowMap, ...); valid is
\* shadowMap->isValid().
setupShadowRendering(g, shadowMap, valid) ==
    IF ~valid THEN g
    ELSE [g EXCEPT !.framebuffer = shadowMap,
                   !.projectionStack = @ + 1,
                   !.modelViewStack = @ + 1,
                   !.viewport = "shadowMap",
                   !.depthRange = FullDepthRange]

\* The result of a shadow pass: the value it returns and the graphics state
\* it leaves.
PassResult(returned, g) == [returned |-> returned, graphics |-> g]

\* UniverseRenderer::renderDepthBufferSpanShadows(shadowIndex, span, ...).
\* view holds the members renderView has set (items, renderSurface,
\* renderViewport, renderColorMask, depthRangeFront, depthRangeBack); undef is
\* what a read of m_shadowMaps[shadowIndex] beyond the end of the pool yields
\* (a usable framebuffer or not).
renderDepthBufferSpanShadows_bindsFirst(g, view, shadowIndex, span, undef) ==
    LET usable == IF shadowIndex < Len(m_shadowMaps)
                  THEN m_shadowMaps[shadowIndex + 1] = "valid"
                  ELSE undef
        geometries == spanGeometries(view.items, span)
        shadowCastersPresent == \E geometry \in geometries : geometry.isShadowCaster
        shadowReceiversPresent == \E geometry \in geometries : geometry.isShadowReceiver
        g1 == beginShadowRendering([g EXCEPT !.depthRange = FullDepthRange])
        g2 == setupShadowRendering(g1, ShadowMapNames[shadowIndex + 1], usable)
    IN IF ~m_shadowsEnabled THEN PassResult(FALSE, g)
       ELSE IF ~FramebufferSupported \/ ~usable THEN PassResult(FALSE, g)
       ELSE IF ~shadowCastersPresent \/ ~shadowReceiversPresent THEN PassResult(FALSE, g2)
       ELSE LET g3 == [g2 EXCEPT !.modelViewStack = (@ + 1) - 1]
                g4 == [g3 EXCEPT !.projectionStack = @ - 1, !.modelViewStack = @ - 1]
                g5 == finishShadowRendering(g4, view.renderSurface, view.renderColorMask)
                g6 == [g5 EXCEPT !.depthRange = <<view.depthRangeFront, view.depthRangeBack>>,
                                 !.viewport = view.renderViewport]
            IN PassResult(TRUE, [g6 EXCEPT !.shadowMaps = @ \cup {shadowIndex}])
renderDepthBufferSpanShadows(g, view, shadowIndex, span, undef) ==
    LET usable == IF shadowIndex < Len(m_shadowMaps)
                  THEN m_shadowMaps[shadowIndex + 1] = "valid"
                  ELSE undef
        geometries == spanGeometries(view.items, span)
        shadowCastersPresent == \E geometry \in geometries : geometry.isShadowCaster
        shadowReceiversPresent == \E geometry \in geometries : geometry.isShadowReceiver
    IN IF ~m_shadowsEnabled THEN PassResult(FALSE, g)
       ELSE IF ~FramebufferSupported \/ ~usable THEN PassResult(FALSE, g)
       ELSE IF ~shadowCastersPresent \/ ~shadowReceiversPresent THEN PassResult(FALSE, g)
       ELSE LET g1 == beginShadowRendering([g EXCEPT !.depthRange = FullDepthRange])
                g2 == setupShadowRendering(g1, ShadowMapNames[shadowIndex + 1], usable)
                \* each caster is drawn between pushModelView and popModelView
                g3 == [g2 EXCEPT !.modelViewStack = (@ + 1) - 1]
                g4 == [g3 EXCEPT !.projectionStack = @ - 1, !.modelViewStack = @ - 1]
                g5 == finishShadowRendering(g4, view.renderSurface, view.renderColorMask)
                g6 == [g5 EXCEPT !.depthRange = <<view.depthRangeFront, view.depthRangeBack>>,
                                 !.viewport = view.renderViewport]
            IN PassResult(TRUE, [g6 EXCEPT !.shadowMaps = @ \cup {shadowIndex}])

\* UniverseRenderer::renderDepthBufferSpanOmniShadows(shadowIndex, span,
\* light, ...); every face of a cubic shadow map has a framebuffer.
renderDepthBufferSpanOmniShadows(g, view, shadowIndex, span) ==
    LET geometries == spanGeometries(view.items, span)
        shadowCastersPresent == \E geometry \in geometries : geometry.isShadowCaster
        shadowReceiversPresent == \E geometry \in geometries : geometry.isShadowReceiver
    IN IF ~FramebufferSupported \/ ~m_shadowsEnabled THEN PassResult(FALSE, g)
       ELSE IF ~shadowCastersPresent \/ ~shadowReceiversPresent THEN PassResult(FALSE, g)
       ELSE LET g1 == [g EXCEPT !.viewport = "omniShadowMap", !.depthRange = FullDepthRange]
                g2 == [beginCubicShadowRendering(g1) EXCEPT
                           !.frontFace = "GL_CW", !.rendererOutput = "CameraDistance"]
                g3 == [g2 EXCEPT !.projectionStack = @ + 1]
                \* six faces: bind, pushModelView, draw the casters, popModelView
                g4 == [g3 EXCEPT !.framebuffer = OmniShadowMapNames[shadowIndex + 1],
                                 !.modelViewStack = (@ + 1) - 1]
                g5 == [g4 EXCEPT !.projectionStack = @ - 1,
                                 !.rendererOutput = "FragmentColor"]
                g6 == [finishShadowRendering(g5, view.renderSurface, view.renderColorMask)
                          EXCEPT !.frontFace = "GL_CCW"]
                g7 == [g6 EXCEPT !.depthRange = <<view.depthRangeFront, view.depthRangeBack>>,
                                 !.viewport = view.renderViewport]
            IN PassResult(TRUE, [g7 EXCEPT !.omniShadowMaps = @ \cup {shadowIndex}])

\* The record of a shadow pass in the span log.
ShadowPass(kind, shadowIndex, before, result) ==
    [pass |-> kind, shadowIndex |-> shadowIndex, returned |-> result.returned,
     before |-> before, after |-> result.graphics]

\* The shadow passes of a span so far: the graphics state, whether the
\* directional pass rendered (shadowsOn), the value of omniShadowCount and
\* the record of the passes made.
NoShadowPasses(g) ==
    [graphics |-> g, shadowsOn |-> FALSE, omniShadowCount |-> 0, passes |-> <<>>]

\* shadowsOn = renderDepthBufferSpanShadows(0, span, ...): sun is the result
\* of the pass made from the graphics state g.
afterDirectionalPass(g, sun) ==
    [graphics |-> sun.graphics, shadowsOn |-> sun.returned, omniShadowCount |-> 0,
     passes |-> <<ShadowPass("directional", 0, g, sun)>>]

\* renderDepthBufferSpanOmniShadows(omniShadowCount, ...); ++omniShadowCount:
\* result is the result of the pass made from state.
afterOmniPass(state, result) ==
    [state EXCEPT !.graphics = result.graphics,
                  !.omniShadowCount = @ + 1,
                  !.passes = Append(@, ShadowPass("omni", state.omniShadowCount,
                                                  state.graphics, result))]

\* The loop of renderDepthBufferSpan over the additional light sources, at
\* index i of the visible light list.  undef is the value that
\* lightSource->isShadowCaster() yields for a null lightSource.
RECURSIVE omniShadowLoop(_, _, _, _, _, _)
omniShadowLoop(state, view, lights, span, i, undef) ==
    IF i < Len(lights) /\ state.omniShadowCount < Len(m_omniShadowMaps)
    THEN IF (IF lights[i + 1].lightSource = 0 THEN undef
             ELSE lightEntity(lights[i + 1]).lightShadowCaster)
         THEN omniShadowLoop(
                  afterOmniPass(state,
                                renderDepthBufferSpanOmniShadows(
                                    state.graphics, view, state.omniShadowCount, span)),
                  view, lights, span, i + 1, undef)
         ELSE omniShadowLoop(state, view, lights, span, i + 1, undef)
    ELSE state

\* The shadow passes of renderDepthBufferSpan for a span that is drawn.
shadowPasses(g, view, lights, span, undef) ==
    IF m_shadowsEnabled /\ lights # <<>>
    THEN omniShadowLoop(
             afterDirectionalPass(g, renderDepthBufferSpanShadows(g, view, 0, span, undef)),
             view, lights, span, 1, undef)
    ELSE NoShadowPasses(g)

\* ------------------------------------------------------------------------
\* Drawing the spans
\* ------------------------------------------------------------------------

\* The record of a drawItem call in the span log.
Draw(pass, item, shadowMapCount, omniShadowMapCount) ==
    [pass |-> pass, entity |-> item.entity, shadowMapCount |-> shadowMapCount,
     omniShadowMapCount |-> omniShadowMapCount]

\* The drawItem calls of one pass over a span, in order: the items of the
\* span, then the splittable items that fall at least partly within it.
drawPass(pass, view, span, shadowsOn, omniShadowCount) ==
    LET drawn(item) == pass = "OpaquePass" \/ ~universe[m_universe][item.entity].isOpaque
        receiver(item) == universe[m_universe][item.entity].isShadowReceiver
        spanItems == [i \in 1..span.itemCount |-> view.items[span.backItemIndex - (i - 1) + 1]]
        splittable == Reverse(view.splittable)
        overlaps(item) == /\ Less(item.nearDistance, span.farDistance)
                          /\ Less(span.nearDistance, item.farDistance)
        itemDraw(item) == Draw(pass, item,
                               IF shadowsOn /\ receiver(item) THEN 1 ELSE 0,
                               IF receiver(item) THEN omniShadowCount ELSE 0)
        splittableDraw(item) == Draw(pass, item, 0, 0)
        itemDraws == SelectSeq(spanItems, drawn)
        splittableDraws == SelectSeq(splittable, LAMBDA item : overlaps(item) /\ drawn(item))
    IN [i \in 1..Len(itemDraws) |-> itemDraw(itemDraws[i])]
       \o [i \in 1..Len(splittableDraws) |-> splittableDraw(splittableDraws[i])]

\* What renderDepthBufferSpan did: the graphics state it leaves, whether it
\* returned without drawing, its shadow passes and its drawItem calls.
SpanResult(g, skipped, passes, draws) ==
    [graphics |-> g, skipped |-> skipped, passes |-> passes, draws |-> draws]

\* The two passes of renderDepthBufferSpan over the items, after the shadow
\* passes that left state.
drawItems_translucentFirst(view, span, state) ==
    SpanResult(state.graphics, FALSE, state.passes,
               drawPass("TranslucentPass", view, span, state.shadowsOn,
                        state.omniShadowCount)
               \o drawPass("OpaquePass", view, span, state.shadowsOn, state.omniShadowCount))

drawItems(view, span, state) ==
    SpanResult(state.graphics, FALSE, state.passes,
               drawPass("OpaquePass", view, span, state.shadowsOn, state.omniShadowCount)
               \o drawPass("TranslucentPass", view, span, state.shadowsOn,
                           state.omniShadowCount))

\* UniverseRenderer::renderDepthBufferSpan(span, projection)
renderDepthBufferSpan(g, view, lights, span, proj, undef) ==
    IF span.itemCount = 0 /\ view.splittable = <<>> THEN SpanResult(g, TRUE, <<>>, <<>>)
    ELSE IF ~Less(Max(proj.nearDistance, span.nearDistance),
                  Min(proj.farDistance, span.farDistance))
    THEN SpanResult(g, TRUE, <<>>, <<>>)
    ELSE drawItems(view, span, shadowPasses(g, view, lights, span, undef))

\* The depth range of the span at (zero-based) position k of a list of n
\* spans: spanIndex * spanRange to (spanIndex + 1) * spanRange, where
\* spanIndex counts down from n - 1 and spanRange is 1 / n.
spanDepthRange_frontFirst(k, n) == << <<k, n>>, <<k + 1, n>> >>

spanDepthRange(k, n) == << <<(n - 1) - k, n>>, <<(n - 1) - k + 1, n>> >>

\* The view after renderDepthBufferSpan has returned result for the span at
\* position k, drawn with the depth range range.
spanDrawn(state, k, range, result) ==
    [graphics |-> result.graphics,
     log |-> Append(state.log,
                    [face |-> 0, span |-> k, depthRange |-> range,
                     skipped |-> result.skipped, passes |-> result.passes,
                     draws |-> result.draws])]

\* setDepthRange(front, back); renderDepthBufferSpan(span, projection)
drawSpan(state, view, lights, span, k, range, proj, undef) ==
    spanDrawn(state, k, range,
              renderDepthBufferSpan([state.graphics EXCEPT !.depthRange = range],
                                    [view EXCEPT !.depthRangeFront = range[1],
                                                 !.depthRangeBack = range[2]],
                                    lights, span, proj, undef))

\* The loop of renderView that draws the spans from back to front, at
\* (zero-based) position k; state holds the graphics state and the log.
RECURSIVE drawSpans(_, _, _, _, _, _, _)
drawSpans(state, view, lights, spans, k, proj, undef) ==
    IF k < Len(spans)
    THEN drawSpans(drawSpan(state, view, lights, spans[k + 1], k,
                            spanDepthRange(k, Len(spans)), proj, undef),
                   view, lights, spans, k + 1, proj, undef)
    ELSE state

\* The end of renderView, after the loop that left drawn:
\* setDepthRange(0.0f, 1.0f), popModelView, glFrontFace(GL_CCW).
viewDrawn(drawn) ==
    [graphics |-> [drawn.graphics EXCEPT !.depthRange = FullDepthRange,
                                         !.modelViewStack = @ - 1,
                                         !.frontFace = "GL_CCW"],
     spanLog |-> drawn.log,
     m_depthRangeFront |-> FullDepthRange[1],
     m_depthRangeBack |-> FullDepthRange[2]]

\* The body of renderView for an open view set, from the graphics state g:
\* the values it leaves in the renderer's members, the graphics state and
\* the span log.  visible and splittable are the two item lists as std::sort
\* left them.
renderOpenView(g, proj, viewport, renderSurface, visible, splittable, undef) ==
    LET view == [items |-> visible, splittable |-> splittable,
                 renderSurface |-> renderSurface, renderViewport |-> viewport,
                 renderColorMask |-> g.colorMask,
                 depthRangeFront |-> m_depthRangeFront,
                 depthRangeBack |-> m_depthRangeBack]
        g1 == [g EXCEPT !.viewport = viewport,
                        !.frontFace = IF proj.chirality = "LeftHanded" THEN "GL_CW" ELSE @,
                        !.modelViewStack = @ + 1]
        lights == buildVisibleLightSourceList(m_visibleLightSources)
        raw == splitDepthBuffer(visible)
        merged == coalesceDepthBuffer(raw)
        spans == addSplittableSpans(raw, merged, splittable, proj)
    IN [m_visibleLightSources |-> lights, m_visibleItems |-> visible,
        m_splittableItems |-> splittable, m_depthBufferSpans |-> raw,
        coalescedSpans |-> merged, m_mergedDepthBufferSpans |-> spans,
        m_renderSurface |-> renderSurface, m_renderViewport |-> viewport,
        m_renderColorMask |-> g.colorMask, projection |-> proj]
       @@ viewDrawn(drawSpans([graphics |-> g1, log |-> <<>>], view, lights, spans, 0,
                              proj, undef))

\* ------------------------------------------------------------------------
\* Entry points
\* ------------------------------------------------------------------------

\* UniverseRenderer::initializeGraphics; created tells whether
\* RenderContext::Create() returns a context.
initializeGraphics(created) ==
    /\ m_renderContext' = (m_renderContext \/ created)
    /\ lastCall' = Call("initializeGraphics",
                         IF m_renderContext \/ created THEN "true" ELSE "false")
    /\ UNCHANGED <<universe, stdSort, viewSetVars, shadowVars, viewVars, lastBracket>>

\* The light list beginViewSet builds after the Sun: entities[1..n] scanned.
RECURSIVE entityLightSources(_, _, _)
entityLightSources_newestFirst(entities, t, n) ==
    IF n = 0 THEN <<>>
    ELSE LET rest == entityLightSources(entities, t, n - 1)
         IN IF entities[n].lightSource /\ isVisible(entities[n], t)
            THEN <<[lightSource |-> n]>> \o rest
            ELSE rest

entityLightSources(entities, t, n) ==
    IF n = 0 THEN <<>>
    ELSE LET rest == entityLightSources(entities, t, n - 1)
         IN IF entities[n].lightSource /\ isVisible(entities[n], t)
            THEN Append(rest, [lightSource |-> n])
            ELSE rest

\* The Sun's entry in the light list (lightSource = 0).
sunItem == [lightSource |-> 0]

\* The three parameter and state checks at the top of beginViewSet.
beginViewSetStatus_viewSetCheckFirst(u) ==
    IF ~m_renderContext THEN "RendererUninitialized"
    ELSE IF m_universe # NULL THEN "RenderViewSetAlreadyStarted"
    ELSE IF u = NULL THEN "RendererBadParameter"
    ELSE "RenderOk"

beginViewSetStatus(u) ==
    IF ~m_renderContext THEN "RendererUninitialized"
    ELSE IF u = NULL THEN "RendererBadParameter"
    ELSE IF m_universe # NULL THEN "RenderViewSetAlreadyStarted"
    ELSE "RenderOk"

\* UniverseRenderer::beginViewSet(universe, tsec)
beginViewSet_timeSetBeforeChecks(u, tsec) ==
    LET status == beginViewSetStatus(u)
    IN /\ lastCall' = BeginCall(u, tsec, status)
       /\ m_currentTime' = tsec
       /\ IF status = "RenderOk"
          THEN /\ m_universe' = u
               /\ m_lightSources' =
                      <<sunItem>> \o entityLightSources(universe[u], tsec, Len(universe[u]))
               /\ lastBracket' = "begin"
               /\ UNCHANGED <<universe, stdSort, m_renderContext, shadowVars, viewVars>>
          ELSE UNCHANGED <<universe, stdSort, m_renderContext, m_universe, m_lightSources,
                           shadowVars, viewVars, lastBracket>>

beginViewSet(u, tsec) ==
    LET status == beginViewSetStatus(u)
    IN /\ lastCall' = BeginCall(u, tsec, status)
       /\ IF status = "RenderOk"
          THEN /\ m_universe' = u
               /\ m_currentTime' = tsec
               /\ m_lightSources' =
                      <<sunItem>> \o entityLightSources(universe[u], tsec, Len(universe[u]))
               /\ lastBracket' = "begin"
               /\ UNCHANGED <<universe, stdSort, m_renderContext, shadowVars, viewVars>>
          ELSE UNCHANGED <<universe, stdSort, m_renderContext, viewSetVars, shadowVars, viewVars,
                           lastBracket>>

\* UniverseRenderer::endViewSet
endViewSet_keepsUniverse ==
    IF m_universe = NULL
    THEN /\ lastCall' = Call("endViewSet", "RenderNoViewSet")
         /\ UNCHANGED <<universe, stdSort, m_renderContext, viewSetVars, shadowVars, viewVars,
                           lastBracket>>
    ELSE /\ lastCall' = Call("endViewSet", "RenderOk")
         /\ lastBracket' = "end"
         /\ UNCHANGED <<universe, stdSort, m_renderContext, viewSetVars, shadowVars, viewVars>>

endViewSet_withoutCheck ==
    /\ m_universe' = NULL
    /\ lastCall' = Call("endViewSet", "RenderOk")
    /\ lastBracket' = "end"
    /\ UNCHANGED <<universe, stdSort, m_renderContext, m_currentTime, m_lightSources,
                      shadowVars, viewVars>>

endViewSet ==
    IF m_universe = NULL
    THEN /\ lastCall' = Call("endViewSet", "RenderNoViewSet")
         /\ UNCHANGED <<universe, stdSort, m_renderContext, viewSetVars, shadowVars, viewVars,
                           lastBracket>>
    ELSE /\ m_universe' = NULL
         /\ lastCall' = Call("endViewSet", "RenderOk")
         /\ lastBracket' = "end"
         /\ UNCHANGED <<universe, stdSort, m_renderContext, m_currentTime, m_lightSources,
                      shadowVars, viewVars>>

\* The values a read of undefined content may yield while a view is
\* rendered.  The shadow passes of renderDepthBufferSpan make the only such
\* reads, and they are made only when shadows are enabled.
UndefinedReads == IF m_shadowsEnabled THEN BOOLEAN ELSE {FALSE}

\* The members and the graphics state become what a view has left.
viewWritten(view) ==
    /\ m_visibleLightSources' = view.m_visibleLightSources
    /\ m_visibleItems' = view.m_visibleItems
    /\ m_splittableItems' = view.m_splittableItems
    /\ m_depthBufferSpans' = view.m_depthBufferSpans
    /\ coalescedSpans' = view.coalescedSpans
    /\ m_mergedDepthBufferSpans' = view.m_mergedDepthBufferSpans
    /\ m_renderSurface' = view.m_renderSurface
    /\ m_renderViewport' = view.m_renderViewport
    /\ m_renderColorMask' = view.m_renderColorMask
    /\ m_depthRangeFront' = view.m_depthRangeFront
    /\ m_depthRangeBack' = view.m_depthRangeBack
    /\ graphics' = view.graphics
    /\ projection' = view.projection
    /\ spanLog' = view.spanLog

\* UniverseRenderer::renderView(lighting, cameraPosition, cameraOrientation,
\* projection, viewport, renderSurface) for the fixed camera of the model,
\* the viewport of the window and the default back buffer (renderSurface is
\* NULL).  The sky layers are not modelled.
renderView(proj) ==
    IF m_universe = NULL
    THEN /\ lastCall' = Call("renderView", "RenderNoViewSet")
         /\ UNCHANGED <<universe, stdSort, m_renderContext, viewSetVars, shadowVars, viewVars,
                        lastBracket>>
    ELSE LET entities == universe[m_universe]
             lists == collectVisibleItems(entities, m_currentTime, Len(entities),
                                          proj.nearAdjust)
         IN \E visible \in SortVisibleItems(lists[1]) :
            \E splittable \in SortVisibleItems(lists[2]) :
            \E undef \in UndefinedReads :
            \E view \in {renderOpenView(graphics, proj, "view", NULL,
                                        visible, splittable, undef)} :
               /\ viewWritten(view)
               /\ lastCall' = Call("renderView", "RenderOk")
               /\ UNCHANGED <<universe, stdSort, m_renderContext, viewSetVars, shadowVars,
                              lastBracket>>

\* The entries of the span log of a view, marked with the number of the
\* cube map face the view was rendered to.
faceLog(entries, face) ==
    [i \in 1..Len(entries) |-> [entries[i] EXCEPT !.face = face]]

\* The loop of renderCubeMap and renderShadowCubeMap over the faces of a
\* cube map with faces > 0 framebuffers, inside a view set, at face number
\* face: bind the face and render the view into it.  The camera of the model
\* is fixed, so every face shows the same view.  previous holds the graphics
\* state and the span log that the faces before this one have left; the
\* result is the last view, with the span log of all the views.
RECURSIVE renderFaces(_, _, _, _, _, _, _)
renderFaces(previous, face, faces, proj, visible, splittable, undef) ==
    IF face = faces THEN previous
    ELSE renderFaces(
             [renderOpenView([previous.graphics EXCEPT !.framebuffer = "cubeMapFace"],
                             proj, "cubeMap", "cubeMapFace", visible, splittable, undef)
                 EXCEPT !.spanLog = previous.spanLog \o faceLog(@, face)],
             face + 1, faces, proj, visible, splittable, undef)

\* renderCubeMap and renderShadowCubeMap from the graphics state g: faces
\* is the number of faces of the cube map that have a framebuffer, output
\* the renderer output the entry point leaves.
renderCube(op, g, faces, proj, output) ==
    IF faces = 0
    THEN /\ graphics' = [g EXCEPT !.framebuffer = "backBuffer", !.rendererOutput = output]
         /\ lastCall' = Call(op, "RenderOk")
         /\ UNCHANGED <<universe, stdSort, m_renderContext, viewSetVars, shadowVars,
                        m_visibleLightSources, m_visibleItems, m_splittableItems,
                        m_depthBufferSpans, m_mergedDepthBufferSpans, m_renderSurface,
                        m_renderViewport, m_renderColorMask, m_depthRangeFront,
                        m_depthRangeBack, coalescedSpans, projection, spanLog, lastBracket>>
    ELSE IF m_universe = NULL
    THEN /\ graphics' = [g EXCEPT !.framebuffer = "backBuffer", !.rendererOutput = output]
         /\ lastCall' = Call(op, "RenderNoViewSet")
         /\ UNCHANGED <<universe, stdSort, m_renderContext, viewSetVars, shadowVars,
                        m_visibleLightSources, m_visibleItems, m_splittableItems,
                        m_depthBufferSpans, m_mergedDepthBufferSpans, m_renderSurface,
                        m_renderViewport, m_renderColorMask, m_depthRangeFront,
                        m_depthRangeBack, coalescedSpans, projection, spanLog, lastBracket>>
    ELSE LET entities == universe[m_universe]
             lists == collectVisibleItems(entities, m_currentTime, Len(entities),
                                          proj.nearAdjust)
         IN \E visible \in SortVisibleItems(lists[1]) :
            \E splittable \in SortVisibleItems(lists[2]) :
            \E undef \in UndefinedReads :
            \E view \in {renderFaces([graphics |-> g, spanLog |-> <<>>], 0, faces, proj,
                                     visible, splittable, undef)} :
               /\ viewWritten([view EXCEPT
                                  !.graphics = [@ EXCEPT !.framebuffer = "backBuffer",
                                                         !.rendererOutput = output]])
               /\ lastCall' = Call(op, "RenderOk")
               /\ UNCHANGED <<universe, stdSort, m_renderContext, viewSetVars, shadowVars,
                              lastBracket>>

\* UniverseRenderer::renderCubeMap(lighting, position, cubeMap, nearDistance,
\* farDistance, rotation)
renderCubeMap(faces, nearDistance, farDistance) ==
    renderCube("renderCubeMap", graphics, faces,
               PlanarProjection(nearDistance, farDistance, "LeftHanded"),
               graphics.rendererOutput)

\* UniverseRenderer::renderShadowCubeMap(lighting, position, cubeMap).  The
\* call m_renderContext->setRendererOutput(CameraDistance) comes before any
\* test: without a render context it writes through a null pointer, and the
\* call ends in a fault instead of returning a status.  The fault changes no
\* member of the renderer.
renderShadowCubeMap(faces) ==
    IF ~m_renderContext
    THEN /\ lastCall' = Call("renderShadowCubeMap", "fault")
         /\ UNCHANGED <<universe, stdSort, m_renderContext, viewSetVars, shadowVars, viewVars,
                        lastBracket>>
    ELSE renderCube("renderShadowCubeMap",
               [graphics EXCEPT !.rendererOutput = "CameraDistance"], faces,
               PlanarProjection(Dist(MinimumNearPlaneDistance[1], MinimumNearPlaneDistance[2]),
                                Dist(MaximumFarPlaneDistance[1], MaximumFarPlaneDistance[2]),
                                "LeftHanded"),
               "FragmentColor")

\* UniverseRenderer::initializeShadowMaps(shadowMapSize, shadowMapCount), for
\* a count of at most MaxShadowMaps; created is what
\* Framebuffer::CreateDepthOnlyFramebuffer returns: a valid or an invalid
\* framebuffer, or NULL.  The shaders that shadowsSupported() asks for are
\* available.
initializeShadowMaps(shadowMapCount, created) ==
    /\ IF ~m_renderContext \/ ~FramebufferSupported
       THEN /\ lastCall' = Call("initializeShadowMaps", "false")
            /\ UNCHANGED shadowVars
       ELSE /\ m_shadowsEnabled' = FALSE
            /\ m_shadowMaps' = IF created = NULL THEN <<>>
                               ELSE [i \in 1..shadowMapCount |-> created]
            /\ lastCall' = Call("initializeShadowMaps",
                                IF created = NULL THEN "false" ELSE "true")
            /\ UNCHANGED m_omniShadowMaps
    /\ UNCHANGED <<universe, stdSort, m_renderContext, viewSetVars, viewVars, lastBracket>>

\* UniverseRenderer::initializeOmniShadowMaps(shadowMapSize, shadowMapCount),
\* for a count of at most MaxOmniShadowMaps; created tells whether
\* CubeMapFramebuffer::CreateCubicReflectionMap returns a cube map.  The
\* extensions that omniShadowsSupported() asks for are available.
initializeOmniShadowMaps(shadowMapCount, created) ==
    /\ IF ~m_renderContext \/ ~FramebufferSupported
       THEN /\ lastCall' = Call("initializeOmniShadowMaps", "false")
            /\ UNCHANGED m_omniShadowMaps
       ELSE /\ m_omniShadowMaps' = IF created THEN [i \in 1..shadowMapCount |-> "cubeMap"]
                                   ELSE <<>>
            /\ lastCall' = Call("initializeOmniShadowMaps",
                                IF created THEN "true" ELSE "false")
    /\ UNCHANGED <<universe, stdSort, m_renderContext, viewSetVars, m_shadowsEnabled,
                   m_shadowMaps, viewVars, lastBracket>>

\* UniverseRenderer::setShadowsEnabled(enable).  With an empty pool the read
\* of m_shadowMaps[0] is out of bounds: undef tells whether what it yields
\* passes for a valid framebuffer.
setShadowsEnabled(enable, undef) ==
    LET valid == IF m_shadowMaps # <<>> THEN m_shadowMaps[1] = "valid" ELSE undef
    IN /\ m_shadowsEnabled' = IF valid THEN enable ELSE m_shadowsEnabled
       /\ lastCall' = Call("setShadowsEnabled", "void")
       /\ UNCHANGED <<universe, stdSort, m_renderContext, viewSetVars, m_shadowMaps,
                      m_omniShadowMaps, viewVars, lastBracket>>

Next ==
    \/ \E created \in BOOLEAN : initializeGraphics(created)
    \/ \E u \in Universes \cup {NULL}, tsec \in Times : beginViewSet(u, tsec)
    \/ \E proj \in Projections : renderView(proj)
    \/ endViewSet

Spec == Init /\ [][Next]_vars

\* ------------------------------------------------------------------------
\* Lighting and shadows: scenes of lit bodies, every entry point
\* ------------------------------------------------------------------------

\* Largest number of entities in a lit scene.
MaxLitEntities == 2

\* A sphere of radius 1 at distance 10 on the view axis, with a light source
\* that lies outside the view frustum.
Sphere ==
    [Entity(TRUE, Dist(1, 0), Dist(10, 0), Dist(8, 0), "PreserveDepthPrecision", TRUE, 0)
        EXCEPT !.lightInFrustum = FALSE]

\* The kinds of entity lit scenes are built from:
\*   the sphere, which casts and receives shadows;
\*   a translucent body of exactly half a pixel that casts shadows and
\*   shares the depth range of the sphere, with a light that casts none;
\*   a body smaller than half a pixel, with a light that casts no shadows;
\*   a distant body that receives shadows, with a shadow-casting light of
\*   exactly one pixel;
\*   a shadow-casting light smaller than a pixel.
LitCatalogue ==
    << [Sphere EXCEPT !.isShadowCaster = TRUE, !.isShadowReceiver = TRUE],
       [Entity(TRUE, Dist(1, 0), Dist(9, 0), Dist(6, 0), "PreserveDepthPrecision", TRUE, 0)
           EXCEPT !.projectedSize = <<1, 2>>, !.isShadowCaster = TRUE, !.isOpaque = FALSE,
                  !.lightShadowCaster = FALSE, !.lightProjectedSize = <<2, 1>>],
       [Entity(TRUE, Dist(1, 0), Dist(2, 0), Dist(2, 0), "PreserveDepthPrecision", TRUE, 0)
           EXCEPT !.projectedSize = <<2, 5>>, !.lightShadowCaster = FALSE],
       [Entity(TRUE, Dist(2, 1), Dist(8, 1), Dist(2, 0), "PreserveDepthPrecision", TRUE, 0)
           EXCEPT !.isShadowReceiver = TRUE, !.lightProjectedSize = <<1, 1>>],
       [Entity(FALSE, Dist(0, 0), Dist(0, 0), Dist(0, 0), "PreserveDepthPrecision", TRUE, 0)
           EXCEPT !.lightProjectedSize = <<9, 10>>] >>

\* The entity lists of a lit universe "U1": up to MaxLitEntities different
\* entities, in catalogue order.
LitScenes ==
    UNION {{[i \in 1..n |-> LitCatalogue[f[i]]] :
               f \in {g \in [1..n -> 1..Len(LitCatalogue)] :
                         \A i \in 1..(n - 1) : g[i] < g[i + 1]}} :
           n \in 0..MaxLitEntities}

\* The number of faces of a cube map that have a framebuffer.
CubeMapFaces == {6}

\* The projection of the lit views: the whole range of depths a view may
\* cover.
LitProjection ==
    PlanarProjection(Dist(MinimumNearPlaneDistance[1], MinimumNearPlaneDistance[2]),
                     Dist(MaximumFarPlaneDistance[1], MaximumFarPlaneDistance[2]),
                     "RightHanded")

\* A renderer for each lit scene, in each build.
LightingInit ==
    /\ universe \in [Universes -> LitScenes]
    /\ universe["U2"] = <<>>
    /\ stdSort \in SortImplementations
    /\ InitRenderer

\* The application creates the graphics context and the shadow map pools,
\* switches shadows on and off and renders views and cube maps of the
\* universe "U1".
LightingNext ==
    \/ initializeGraphics(TRUE)
    \/ initializeShadowMaps(1, "valid")
    \/ initializeOmniShadowMaps(1, TRUE)
    \/ \E enable, undef \in BOOLEAN : setShadowsEnabled(enable, undef)
    \/ beginViewSet("U1", 0)
    \/ renderView(LitProjection)
    \/ \E faces \in CubeMapFaces :
           renderCubeMap(faces, LitProjection.nearDistance, LitProjection.farDistance)
    \/ \E faces \in CubeMapFaces : renderShadowCubeMap(faces)
    \/ endViewSet

LightingSpec == LightingInit /\ [][LightingNext]_vars

TypeOK ==
    /\ m_renderContext \in BOOLEAN
    /\ m_universe \in Universes \cup {NULL}
    /\ m_currentTime \in Times
    /\ lastCall.status \in RenderStatus \cup {"true", "false", "void", "constructed", "fault"}
    /\ m_shadowsEnabled \in BOOLEAN
    /\ stdSort \in SortImplementations
    /\ graphics.projectionStack = 0
    /\ graphics.modelViewStack = 0
    /\ lastBracket \in {"none", "begin", "end"}

\* ------------------------------------------------------------------------
\* The view-set state machine
\* ------------------------------------------------------------------------

\* C1: beginViewSet returns RendererUninitialized when initializeGraphics has
\* not yet succeeded, otherwise RendererBadParameter when the universe
\* argument is null, otherwise RenderViewSetAlreadyStarted when a view set is
\* open, otherwise RenderOk: the first condition in that order decides.
C1_BeginViewSetStatus ==
    [][lastCall'.op = "beginViewSet" =>
          /\ ~m_renderContext => lastCall'.status = "RendererUninitialized"
          /\ m_renderContext /\ lastCall'.universe = NULL =>
                 lastCall'.status = "RendererBadParameter"
          /\ m_renderContext /\ lastCall'.universe # NULL /\ m_universe # NULL =>
                 lastCall'.status = "RenderViewSetAlreadyStarted"
          /\ m_renderContext /\ lastCall'.universe # NULL /\ m_universe = NULL =>
                 lastCall'.status = "RenderOk"]_vars

\* A null universe was passed while a view set is open: BadParameter.
C1_Witness ==
    /\ lastCall.op = "beginViewSet"
    /\ lastCall.universe = NULL
    /\ m_universe # NULL
    /\ lastCall.status = "RendererBadParameter"

\* C2: a beginViewSet (with a universe) issued while a view set is open
\* returns RenderViewSetAlreadyStarted, and every beginViewSet, renderView or
\* endViewSet that returns a status other than RenderOk leaves the open
\* universe, the current time and the master light list as they were.
C2_RejectedCallsChangeNothing ==
    [][/\ lastCall'.op = "beginViewSet" /\ lastCall'.universe # NULL /\ m_universe # NULL
            => lastCall'.status = "RenderViewSetAlreadyStarted"
       /\ lastCall'.op \in {"beginViewSet", "renderView", "endViewSet"}
          /\ lastCall'.status # "RenderOk"
            => UNCHANGED <<m_universe, m_currentTime, m_lightSources>>]_vars

\* A second beginViewSet, for another universe and another time, was rejected
\* while a view set with entity lights is open.
C2_Witness ==
    /\ lastCall.op = "beginViewSet"
    /\ lastCall.status = "RenderViewSetAlreadyStarted"
    /\ lastCall.universe # m_universe
    /\ lastCall.tsec # m_currentTime
    /\ Len(m_lightSources) > 1

\* C3: renderView returns RenderNoViewSet exactly when no view set is open
\* (no beginViewSet has succeeded, or the last successful beginViewSet was
\* followed by a successful endViewSet) and RenderOk exactly when one is
\* open, and a renderView call neither opens nor closes the view set.
C3_RenderViewNeedsViewSet ==
    /\ [](lastCall.op = "renderView" =>
             /\ lastCall.status = "RenderNoViewSet" <=> lastBracket # "begin"
             /\ lastCall.status = "RenderOk" <=> lastBracket = "begin")
    /\ [][lastCall'.op = "renderView" => m_universe' = m_universe]_vars

\* renderView was refused after a view set had been opened and closed.
C3_Witness ==
    /\ lastCall.op = "renderView"
    /\ lastCall.status = "RenderNoViewSet"
    /\ lastBracket = "end"

\* C4: endViewSet returns RenderNoViewSet when no view set is open; otherwise
\* it returns RenderOk and clears m_universe, so that the next beginViewSet
\* with a universe succeeds; successful beginViewSet and endViewSet calls
\* alternate, starting with a beginViewSet.
C4_ViewSetBracket ==
    [][/\ lastCall'.op = "endViewSet" /\ m_universe = NULL =>
              lastCall'.status = "RenderNoViewSet" /\ m_universe' = NULL
       /\ lastCall'.op = "endViewSet" /\ m_universe # NULL =>
              lastCall'.status = "RenderOk" /\ m_universe' = NULL
       /\ lastCall'.op = "beginViewSet" /\ lastBracket = "end" /\ lastCall'.universe # NULL =>
              lastCall'.status = "RenderOk" /\ m_universe' = lastCall'.universe
       /\ lastCall'.op = "beginViewSet" /\ lastCall'.status = "RenderOk" =>
              lastBracket \in {"none", "end"}
       /\ lastCall'.op = "endViewSet" /\ lastCall'.status = "RenderOk" =>
              lastBracket = "begin"]_vars

\* A view set was closed: the renderer is idle again.
C4_Witness ==
    /\ lastCall.op = "endViewSet"
    /\ lastCall.status = "RenderOk"
    /\ m_universe = NULL
    /\ lastBracket = "end"

\* ------------------------------------------------------------------------
\* Depth buffer spans
\* ------------------------------------------------------------------------

RECURSIVE SumItemCount(_)
SumItemCount(spans) ==
    IF spans = <<>> THEN 0
    ELSE spans[1].itemCount + SumItemCount(Tail(spans))

\* The span lists hold the result of a renderView.
Rendered == projection # NoProjection

\* C5: the item counts of the raw spans add up to the number of visible
\* items, and so do those of the spans coalesceDepthBuffer produces and those
\* of the final list with its synthetic spans.
C5_ItemCountSum ==
    /\ SumItemCount(m_depthBufferSpans) = Len(m_visibleItems)
    /\ SumItemCount(coalescedSpans) = Len(m_visibleItems)
    /\ SumItemCount(m_mergedDepthBufferSpans) = Len(m_visibleItems)

\* Two visible items in separate raw spans were merged into fewer spans, and
\* synthetic spans were added for a splittable item.
C5_Witness ==
    /\ Rendered
    /\ Len(m_visibleItems) >= 2
    /\ Len(m_depthBufferSpans) >= 3
    /\ Len(coalescedSpans) < Len(m_depthBufferSpans)
    /\ Len(m_mergedDepthBufferSpans) > Len(coalescedSpans)

\* C6: for a non-empty visible item list the raw spans have strictly
\* decreasing far distances, each has nearDistance < farDistance, a span
\* begins where the one before it ends (so consecutive spans do not overlap)
\* and the spans reach from the largest item far distance down to the
\* smallest item near distance.
C6_RawSpansPartition ==
    m_visibleItems # <<>> =>
        LET spans == m_depthBufferSpans
            n == Len(spans)
        IN /\ n >= 1
           /\ \A k \in 1..n : Less(spans[k].nearDistance, spans[k].farDistance)
           /\ \A k \in 1..(n - 1) :
                 /\ Less(spans[k + 1].farDistance, spans[k].farDistance)
                 /\ ~Less(spans[k].nearDistance, spans[k + 1].farDistance)
                 /\ spans[k + 1].farDistance = spans[k].nearDistance
           /\ \A i \in 1..Len(m_visibleItems) :
                 /\ ~Less(spans[1].farDistance, m_visibleItems[i].farDistance)
                 /\ ~Less(m_visibleItems[i].nearDistance, spans[n].nearDistance)
           /\ \E i \in 1..Len(m_visibleItems) :
                 spans[1].farDistance = m_visibleItems[i].farDistance
           /\ \E i \in 1..Len(m_visibleItems) :
                 spans[n].nearDistance = m_visibleItems[i].nearDistance

\* Three visible items: two share a raw span, a gap separates the third.
C6_Witness ==
    /\ Len(m_visibleItems) = 3
    /\ Len(m_depthBufferSpans) = 3
    /\ \E k \in 1..3 : m_depthBufferSpans[k].itemCount = 2
    /\ \E k \in 1..3 : m_depthBufferSpans[k].itemCount = 0

\* The near/far ratio of a span is at least PreferredNearFarRatio.
RatioPreferred(span) ==
    ~ratioLess(span.nearDistance, span.farDistance, PreferredNearFarRatio)

\* The span is one of the raw spans, left as it was by coalesceDepthBuffer.
IsRawSpan(span) ==
    \E i \in 1..Len(m_depthBufferSpans) : m_depthBufferSpans[i] = span

\* C7 as stated: after coalesceDepthBuffer every merged span has
\* nearDistance / farDistance >= PreferredNearFarRatio unless the merged list
\* is a single span.
C7_EveryMergedSpanKeepsRatio ==
    Len(coalescedSpans) > 1 =>
        \A k \in 1..Len(coalescedSpans) : RatioPreferred(coalescedSpans[k])

\* C7, amended: after coalesceDepthBuffer every merged span that combines two
\* or more raw spans has nearDistance / farDistance >= PreferredNearFarRatio;
\* a merged span that is a single raw span keeps the distances of that span,
\* whatever their ratio.
C7_CombinedSpansKeepRatio ==
    \A k \in 1..Len(coalescedSpans) :
        IsRawSpan(coalescedSpans[k]) \/ RatioPreferred(coalescedSpans[k])

\* Two merged spans: one combines raw spans, the other is a raw span whose
\* own ratio is below the preferred one.
C7_Witness ==
    /\ Len(coalescedSpans) = 2
    /\ \E k \in 1..2 : ~IsRawSpan(coalescedSpans[k])
    /\ \E k \in 1..2 : ~RatioPreferred(coalescedSpans[k])

\* C8 as stated: after coalesceDepthBuffer, for every adjacent pair (current,
\* next) of merged spans next.nearDistance / current.farDistance >=
\* PreferredNearFarRatio, or only one merged span remains.
C8_AdjacentSpansAboveRatio ==
    \A k \in 1..(Len(coalescedSpans) - 1) :
        ~ratioLess(coalescedSpans[k + 1].nearDistance, coalescedSpans[k].farDistance,
                   PreferredNearFarRatio)

\* C8, amended: after coalesceDepthBuffer, for every adjacent pair (current,
\* next) of merged spans next.nearDistance / current.farDistance <
\* PreferredNearFarRatio (merging them would have taken the ratio below the
\* preferred one), or only one merged span remains.
C8_AdjacentSpansBelowRatio ==
    \A k \in 1..(Len(coalescedSpans) - 1) :
        ratioLess(coalescedSpans[k + 1].nearDistance, coalescedSpans[k].farDistance,
                  PreferredNearFarRatio)

\* coalesceDepthBuffer combined some raw spans and still left several merged
\* spans.
C8_Witness ==
    /\ Len(coalescedSpans) >= 2
    /\ Len(coalescedSpans) < Len(m_depthBufferSpans)

\* The largest far distance among the items (a non-empty list).
MaxFarDistance(items) ==
    CHOOSE d \in {items[i].farDistance : i \in 1..Len(items)} :
        \A i \in 1..Len(items) : ~Less(d, items[i].farDistance)

\* C9: when splittable items exist, after renderView has extended the span
\* list (a) the far distance of the farthest span is at least the smaller of
\* the far distance of the farthest splittable item and the camera far
\* distance, and (b) the near distance of the nearest span is at most the
\* camera near distance.
C9_SplittableItemsCovered ==
    Rendered /\ m_splittableItems # <<>> =>
        LET spans == m_mergedDepthBufferSpans
        IN /\ ~Less(spans[1].farDistance,
                    Min(MaxFarDistance(m_splittableItems), projection.farDistance))
           /\ ~Less(projection.nearDistance, spans[Len(spans)].nearDistance)

\* C10 as stated: with no visible items and at least one splittable item the
\* final span list is exactly one span, with itemCount 0, that covers the
\* camera range.
C10_SingleSyntheticSpan ==
    Rendered /\ m_visibleItems = <<>> /\ m_splittableItems # <<>> =>
        /\ Len(m_mergedDepthBufferSpans) = 1
        /\ m_mergedDepthBufferSpans[1].itemCount = 0
        /\ ~Less(projection.nearDistance, m_mergedDepthBufferSpans[1].nearDistance)
        /\ ~Less(m_mergedDepthBufferSpans[1].farDistance, projection.farDistance)

\* C10, amended: with no visible items and at least one splittable item the
\* final span list holds only synthetic spans (itemCount 0), at least two:
\* first a span from the camera far distance to MaxFarNearRatio times that
\* distance, then spans that begin where the one before ends, each with
\* nearDistance < farDistance and farDistance / nearDistance <=
\* MaxFarNearRatio, which together cover exactly the camera range.
C10_OnlySyntheticSpans ==
    Rendered /\ m_visibleItems = <<>> /\ m_splittableItems # <<>> =>
        LET spans == m_mergedDepthBufferSpans
            n == Len(spans)
        IN /\ n >= 2
           /\ \A k \in 1..n : spans[k].itemCount = 0
           /\ spans[1].nearDistance = projection.farDistance
           /\ spans[1].farDistance = TimesMaxFarNearRatio(projection.farDistance)
           /\ spans[2].farDistance = projection.farDistance
           /\ spans[n].nearDistance = projection.nearDistance
           /\ \A k \in 1..n :
                 /\ Less(spans[k].nearDistance, spans[k].farDistance)
                 /\ ~Less(TimesMaxFarNearRatio(spans[k].nearDistance), spans[k].farDistance)
           /\ \A k \in 1..(n - 1) : spans[k + 1].farDistance = spans[k].nearDistance

\* Only a splittable item was visible and the camera range needed several
\* front spans.
C10_Witness ==
    /\ Rendered
    /\ m_visibleItems = <<>>
    /\ m_splittableItems # <<>>
    /\ Len(m_mergedDepthBufferSpans) >= 4

\* ------------------------------------------------------------------------
\* C11 - C20: drawing the spans, lights and shadows
\* ------------------------------------------------------------------------

\* The (zero-based) item index lies within the item range of the span.
SpanContains(span, index) ==
    /\ span.itemCount > 0
    /\ index <= span.backItemIndex
    /\ index > span.backItemIndex - span.itemCount

\* renderView submitted the final spans in list order, the farthest first,
\* the span at position k of n with depth range [(n-1-k)/n, (n-k)/n] (so the
\* slices of different spans do not overlap), and reset the depth range to
\* [0, 1] after the last span.
SpansDrawnBackToFront ==
    LET spans == m_mergedDepthBufferSpans
        n == Len(spans)
    IN /\ Len(spanLog) = n
       /\ \A k \in 0..(n - 1) :
             /\ spanLog[k + 1].span = k
             /\ spanLog[k + 1].depthRange = << <<n - 1 - k, n>>, <<n - k, n>> >>
       /\ \A k \in 1..(n - 1) : Less(spans[k + 1].farDistance, spans[k].farDistance)
       /\ \A j, k \in 1..n :
             j < k => spanLog[k].depthRange[2][1] <= spanLog[j].depthRange[1][1]
       /\ graphics.depthRange = FullDepthRange
       /\ <<m_depthRangeFront, m_depthRangeBack>> = FullDepthRange

\* C11 as stated: renderView submits the final spans in list order, farthest
\* first, the span at position k of n with depth range [(n-1-k)/n, (n-k)/n],
\* and resets the depth range to [0, 1] after the last span; the span that
\* contains the nearest visible item is the last span drawn and gets the
\* slice with index 0.
C11_NearestItemSpanDrawnLast ==
    Rendered =>
        /\ SpansDrawnBackToFront
        /\ m_visibleItems # <<>> =>
              LET n == Len(m_mergedDepthBufferSpans)
              IN /\ SpanContains(m_mergedDepthBufferSpans[n], 0)
                 /\ spanLog[n].depthRange = << <<0, n>>, <<1, n>> >>

\* C11, amended: renderView submits the final spans in list order, farthest
\* first, the span at position k of n with depth range [(n-1-k)/n, (n-k)/n],
\* and resets the depth range to [0, 1] after the last span; the span that
\* contains the nearest visible item is the last span drawn that holds items
\* (only synthetic spans with itemCount 0 follow it), and it is the last
\* span, with slice index 0, when there are no splittable items.
C11_NearestItemSpanLastWithItems ==
    Rendered =>
        /\ SpansDrawnBackToFront
        /\ m_visibleItems # <<>> =>
              LET spans == m_mergedDepthBufferSpans
                  n == Len(spans)
              IN /\ \E k \in 1..n :
                       /\ SpanContains(spans[k], 0)
                       /\ \A j \in (k + 1)..n : spans[j].itemCount = 0
                 /\ m_splittableItems = <<>> =>
                       /\ SpanContains(spans[n], 0)
                       /\ spanLog[n].depthRange = << <<0, n>>, <<1, n>> >>

\* A view with two spans of visible items, and one with a visible and a
\* splittable item where synthetic spans follow the span of the nearest item.
C11_Witness ==
    /\ Rendered
    /\ m_visibleItems # <<>>
    /\ m_splittableItems # <<>>
    /\ Len(spanLog) >= 3
    /\ m_mergedDepthBufferSpans[Len(spanLog)].itemCount = 0
    /\ \E k \in 1..Len(spanLog) : SpanContains(m_mergedDepthBufferSpans[k], 0)

\* The last call was a renderView that returned RenderOk.
ViewRendered == lastCall.op = "renderView" /\ lastCall.status = "RenderOk"

\* C12: a successful renderView that directly follows a successful
\* renderView of the same view set, with the same projection and an
\* unchanged scene, produces the same raw spans, the same merged spans (the
\* coalesced list and the final list) and the same visible light list in the
\* same order.
C12_RepeatedViewSameSpans ==
    [][ViewRendered /\ ViewRendered' /\ projection' = projection =>
           /\ m_depthBufferSpans' = m_depthBufferSpans
           /\ coalescedSpans' = coalescedSpans
           /\ m_mergedDepthBufferSpans' = m_mergedDepthBufferSpans
           /\ m_visibleLightSources' = m_visibleLightSources]_vars

\* A view with several spans, two lights next to the Sun and two visible
\* items of equal far distance, which std::sort may leave in either order.
C12_Witness ==
    /\ ViewRendered
    /\ Len(m_mergedDepthBufferSpans) >= 2
    /\ Len(m_visibleLightSources) >= 3
    /\ \E i, j \in 1..Len(m_visibleItems) :
          /\ i < j
          /\ m_visibleItems[i].farDistance = m_visibleItems[j].farDistance
          /\ m_visibleItems[i].entity > m_visibleItems[j].entity

\* The entities of the items of the span that an entry of the span log is
\* about, in the universe "U1".
SpanEntities(entry) ==
    LET span == m_mergedDepthBufferSpans[entry.span + 1]
    IN {universe["U1"][m_visibleItems[span.backItemIndex - i + 1].entity] :
           i \in 0..(span.itemCount - 1)}

\* The span has no item that casts shadows, or none that receives them.
NoCasterOrNoReceiver(entry) ==
    \/ \A entity \in SpanEntities(entry) : ~entity.isShadowCaster
    \/ \A entity \in SpanEntities(entry) : ~entity.isShadowReceiver

\* C13: for a span without a shadow-receiving item, or without a
\* shadow-casting item, the directional shadow pass returns false and leaves
\* the graphics state as it found it (framebuffer, GL state, matrix stacks,
\* shadow maps of the render context), and every item of the span is drawn
\* with shadow map count 0.
C13_NoShadowPassWithoutReceivers ==
    \A k \in 1..Len(spanLog) :
        \A p \in 1..Len(spanLog[k].passes) :
            LET pass == spanLog[k].passes[p]
            IN pass.pass = "directional" /\ NoCasterOrNoReceiver(spanLog[k]) =>
                  /\ ~pass.returned
                  /\ pass.after = pass.before
                  /\ \A d \in 1..Len(spanLog[k].draws) :
                        spanLog[k].draws[d].shadowMapCount = 0

\* With shadows enabled, a view drew a span whose items receive shadows but
\* cast none, for which the directional pass returned false, and a span for
\* which it rendered the shadow map.
C13_Witness ==
    /\ m_shadowsEnabled
    /\ \E k \in 1..Len(spanLog) :
          /\ spanLog[k].passes # <<>>
          /\ spanLog[k].passes[1].pass = "directional"
          /\ ~spanLog[k].passes[1].returned
          /\ spanLog[k].draws # <<>>
          /\ \E entity \in SpanEntities(spanLog[k]) : entity.isShadowReceiver
          /\ \A entity \in SpanEntities(spanLog[k]) : ~entity.isShadowCaster
    /\ \E k \in 1..Len(spanLog) :
          /\ spanLog[k].passes # <<>>
          /\ spanLog[k].passes[1].returned
          /\ \E d \in 1..Len(spanLog[k].draws) : spanLog[k].draws[d].shadowMapCount = 1

\* C14: after renderDepthBufferSpanOmniShadows returns, front-face winding,
\* color mask, renderer output mode and viewport equal the values they had
\* immediately before the pass, also in a left-handed view (renderCubeMap)
\* and with the renderer output CameraDistance (renderShadowCubeMap).
C14_OmniPassRestoresState ==
    \A k \in 1..Len(spanLog) :
        \A p \in 1..Len(spanLog[k].passes) :
            LET pass == spanLog[k].passes[p]
            IN pass.pass = "omni" =>
                  /\ pass.after.frontFace = pass.before.frontFace
                  /\ pass.after.colorMask = pass.before.colorMask
                  /\ pass.after.rendererOutput = pass.before.rendererOutput
                  /\ pass.after.viewport = pass.before.viewport

\* C15: every shadow pass, directional or omnidirectional, whether it
\* renders or returns early, leaves the projection and modelview stacks as
\* deep as it found them, and so does every view; after a directional pass
\* the viewport, depth range, color mask, cull face and bound render surface
\* are those in force before the pass.
C15_ShadowPassesBracketed ==
    /\ graphics.projectionStack = InitialGraphics.projectionStack
    /\ graphics.modelViewStack = InitialGraphics.modelViewStack
    /\ \A k \in 1..Len(spanLog) :
          \A p \in 1..Len(spanLog[k].passes) :
              LET pass == spanLog[k].passes[p]
              IN /\ pass.after.projectionStack = pass.before.projectionStack
                 /\ pass.after.modelViewStack = pass.before.modelViewStack
                 /\ pass.pass = "directional" =>
                       /\ pass.after.viewport = pass.before.viewport
                       /\ pass.after.depthRange = pass.before.depthRange
                       /\ pass.after.colorMask = pass.before.colorMask
                       /\ pass.after.cullFace = pass.before.cullFace
                       /\ pass.after.framebuffer = pass.before.framebuffer

\* A cube map call whose views ran a directional pass that rendered a shadow
\* map into a slice of the depth range, a directional pass that returned
\* early and an omnidirectional pass that rendered.
C15_Witness ==
    /\ lastCall.op = "renderCubeMap"
    /\ \E k \in 1..Len(spanLog) :
          /\ spanLog[k].passes # <<>>
          /\ spanLog[k].passes[1].pass = "directional"
          /\ spanLog[k].passes[1].returned
          /\ spanLog[k].passes[1].before.depthRange # FullDepthRange
          /\ spanLog[k].passes[1].before.framebuffer = "cubeMapFace"
          /\ \E p \in 1..Len(spanLog[k].passes) :
                spanLog[k].passes[p].pass = "omni" /\ spanLog[k].passes[p].returned
    /\ \E k \in 1..Len(spanLog) :
          /\ spanLog[k].passes # <<>>
          /\ ~spanLog[k].passes[1].returned

\* The last call rendered at least one view of the open view set, so that
\* m_visibleLightSources was built from m_lightSources.
ViewSetRendered ==
    /\ m_universe # NULL
    /\ lastCall.op \in {"renderView", "renderCubeMap", "renderShadowCubeMap"}
    /\ lastCall.status = "RenderOk"
    /\ projection # NoProjection

\* The position of a light in the master list m_lightSources.
MasterPosition(light) ==
    CHOOSE p \in 1..Len(m_lightSources) : m_lightSources[p] = light

\* Every light that casts shadows (the Sun counts as one) precedes every
\* light that casts none.
CastersFirst ==
    \A i, j \in 1..Len(m_visibleLightSources) :
        castsShadows(m_visibleLightSources[i]) > castsShadows(m_visibleLightSources[j])
            => i < j

\* C16: after buildVisibleLightSourceList every shadow-casting light of the
\* visible light list (the Sun counts as a caster) precedes every light that
\* casts no shadows, and lights of equal caster status keep the relative
\* order they had in the master list.
C16_CastersFirstStable ==
    ViewSetRendered =>
        /\ CastersFirst
        /\ \A i, j \in 1..Len(m_visibleLightSources) :
              /\ i < j
              /\ castsShadows(m_visibleLightSources[i])
                    = castsShadows(m_visibleLightSources[j])
              => MasterPosition(m_visibleLightSources[i])
                    < MasterPosition(m_visibleLightSources[j])

\* The entity at an index of the viewed universe has an item in one of the
\* two item lists.
HasItem(index) ==
    \/ \E i \in 1..Len(m_visibleItems) : m_visibleItems[i].entity = index
    \/ \E i \in 1..Len(m_splittableItems) : m_splittableItems[i].entity = index

\* The light of the entity at an index is in the visible light list.
LightVisible(index) ==
    \E i \in 1..Len(m_visibleLightSources) : m_visibleLightSources[i].lightSource = index

\* addVisibleItem keeps the entity: its far distance is positive and its
\* near distance below its far distance.
DepthKept(entity) ==
    /\ Less(Dist(0, 0), itemFarDistance(entity))
    /\ Less(itemNearDistance(entity, projection.nearAdjust), itemFarDistance(entity))

\* C17: the geometry of an entity is size-culled exactly when its projected
\* size is below 1/2 pixel (a size of exactly 1/2 is kept); the light of an
\* entity is culled for size exactly when its projected size is below 1 pixel
\* (a size of exactly 1 is kept, if the light is in the view frustum); the
\* Sun is in the visible light list of every view.
C17_StrictCullingThresholds ==
    ViewSetRendered =>
        LET entities == universe[m_universe]
        IN /\ \A index \in 1..Len(entities) :
                 LET entity == entities[index]
                     size == entity.projectedSize
                     lightSize == entity.lightProjectedSize
                 IN /\ entity.geometry /\ isVisible(entity, m_currentTime)
                          /\ DepthKept(entity)
                       => (HasItem(index) <=> 2 * size[1] >= size[2])
                    /\ entity.lightSource /\ isVisible(entity, m_currentTime)
                       => /\ lightSize[1] < lightSize[2] => ~LightVisible(index)
                          /\ lightSize[1] >= lightSize[2] /\ entity.lightInFrustum
                                => LightVisible(index)
           /\ LightVisible(0)

\* A view of a body of exactly half a pixel, which has an item, and of a
\* light of exactly one pixel, which is in the visible light list.
C17_Witness ==
    /\ ViewSetRendered
    /\ \E index \in 1..Len(universe[m_universe]) :
          /\ universe[m_universe][index].projectedSize = <<1, 2>>
          /\ HasItem(index)
    /\ \E index \in 1..Len(universe[m_universe]) :
          /\ universe[m_universe][index].lightProjectedSize = <<1, 1>>
          /\ LightVisible(index)

\* The positions of a list of items that hold the entity at an index.
ItemsOf(items, index) == {i \in 1..Len(items) : items[i].entity = index}

\* The items are in ascending order of far distance.
SortedByFarDistance(items) ==
    \A i, j \in 1..Len(items) :
        i < j => ~Less(items[j].farDistance, items[i].farDistance)

\* C18: an entity that passes the culling tests gets an item exactly when
\* its far distance is positive and its near distance is below its far
\* distance; the item is in exactly one list, the splittable list if the
\* clipping policy is SplitToPreventClipping and the visible item list
\* otherwise; both lists are in ascending order of far distance when they
\* are partitioned into spans.
C18_KeptItemsInOneSortedList ==
    ViewRendered =>
        /\ \A index \in 1..Len(universe[m_universe]) :
              LET entity == universe[m_universe][index]
                  visible == Cardinality(ItemsOf(m_visibleItems, index))
                  splittable == Cardinality(ItemsOf(m_splittableItems, index))
              IN entity.geometry /\ isVisible(entity, m_currentTime)
                    /\ 2 * entity.projectedSize[1] >= entity.projectedSize[2]
                 => IF DepthKept(entity)
                    THEN IF entity.clippingPolicy = "SplitToPreventClipping"
                         THEN visible = 0 /\ splittable = 1
                         ELSE visible = 1 /\ splittable = 0
                    ELSE visible = 0 /\ splittable = 0
        /\ \A i \in 1..Len(m_visibleItems) :
              /\ Less(Dist(0, 0), m_visibleItems[i].farDistance)
              /\ Less(m_visibleItems[i].nearDistance, m_visibleItems[i].farDistance)
              /\ m_visibleItems[i].clippingPolicy # "SplitToPreventClipping"
        /\ \A i \in 1..Len(m_splittableItems) :
              /\ Less(Dist(0, 0), m_splittableItems[i].farDistance)
              /\ Less(m_splittableItems[i].nearDistance, m_splittableItems[i].farDistance)
              /\ m_splittableItems[i].clippingPolicy = "SplitToPreventClipping"
        /\ SortedByFarDistance(m_visibleItems)
        /\ SortedByFarDistance(m_splittableItems)

\* A view of three entities: one that is dropped because its near distance
\* is not below its far distance, one that goes to the visible item list and
\* one that goes to the splittable list.
C18_Witness ==
    /\ ViewRendered
    /\ Len(universe[m_universe]) = 3
    /\ Len(m_visibleItems) = 1
    /\ Len(m_splittableItems) = 1
    /\ \E index \in 1..3 :
          /\ universe[m_universe][index].geometry
          /\ Less(Dist(0, 0), itemFarDistance(universe[m_universe][index]))
          /\ ~DepthKept(universe[m_universe][index])

\* C19: with exactly one visible item and no splittable items,
\* splitDepthBuffer and coalesceDepthBuffer each yield exactly one span, with
\* itemCount 1, the far distance of the item (the depth of the entity along
\* the view axis plus its bounding radius: 11 for a sphere of radius 1 at
\* distance 10) and the near distance of the item; renderView adds no span.
C19_SingleItemSingleSpan ==
    ViewSetRendered /\ Len(m_visibleItems) = 1 /\ m_splittableItems = <<>> =>
        LET item == m_visibleItems[1]
            entity == universe[m_universe][item.entity]
            span == DepthBufferSpan(0, 1, item.nearDistance, item.farDistance)
        IN /\ m_depthBufferSpans = <<span>>
           /\ coalescedSpans = <<span>>
           /\ m_mergedDepthBufferSpans = <<span>>
           /\ Less(item.nearDistance, item.farDistance)
           /\ entity.depth.e = entity.boundingSphereRadius.e
                 => item.farDistance
                       = Dist(entity.depth.m + entity.boundingSphereRadius.m, entity.depth.e)
           /\ entity.boundingSphereRadius = Dist(1, 0) /\ entity.depth = Dist(10, 0)
                 => item.farDistance = Dist(11, 0)

\* A view of the sphere of radius 1 at distance 10 alone.
C19_Witness ==
    /\ ViewSetRendered
    /\ Len(universe[m_universe]) = 1
    /\ Len(m_visibleItems) = 1
    /\ universe[m_universe][1].boundingSphereRadius = Dist(1, 0)
    /\ universe[m_universe][1].depth = Dist(10, 0)
    /\ Len(m_mergedDepthBufferSpans) = 1
    /\ m_mergedDepthBufferSpans[1].farDistance = Dist(11, 0)

\* C20: two visible items whose depth intervals do not overlap (the far
\* distance of the nearer is below the near distance of the farther) and
\* whose far distances have a ratio below PreferredNearFarRatio are not
\* merged by coalesceDepthBuffer: they are in two different merged spans,
\* each with itemCount 1, and so they are in the final list.
C20_DistantItemsStaySeparate ==
    /\ Rendered
    /\ Len(m_visibleItems) = 2
    /\ Less(m_visibleItems[1].farDistance, m_visibleItems[2].nearDistance)
    /\ ratioLess(m_visibleItems[1].farDistance, m_visibleItems[2].farDistance,
                 PreferredNearFarRatio)
    => /\ \E j, k \in 1..Len(coalescedSpans) :
             /\ j < k
             /\ SpanContains(coalescedSpans[j], 1)
             /\ coalescedSpans[j].itemCount = 1
             /\ SpanContains(coalescedSpans[k], 0)
             /\ coalescedSpans[k].itemCount = 1
       /\ \E j, k \in 1..Len(m_mergedDepthBufferSpans) :
             /\ j < k
             /\ SpanContains(m_mergedDepthBufferSpans[j], 1)
             /\ m_mergedDepthBufferSpans[j].itemCount = 1
             /\ SpanContains(m_mergedDepthBufferSpans[k], 0)
             /\ m_mergedDepthBufferSpans[k].itemCount = 1

\* A view of two items, far distances 3 and 50000, the farther beginning at
\* 5000.
C20_Witness ==
    /\ Rendered
    /\ Len(m_visibleItems) = 2
    /\ m_visibleItems[1].farDistance = Dist(3, 0)
    /\ m_visibleItems[2].nearDistance = Dist(5000, 0)
    /\ m_visibleItems[2].farDistance = Dist(5, 1)
    /\ Len(coalescedSpans) >= 2

\* ------------------------------------------------------------------------
\* The shadow map pools
\* ------------------------------------------------------------------------

\* The omni passes of a span log entry, in the order they were made.
OmniPasses(entry) == SelectSeq(entry.passes, LAMBDA p : p.pass = "omni")

\* The shadow passes of a span claim the pool entries in order: a directional
\* pass comes first and uses index 0 of m_shadowMaps, the k-th omni pass uses
\* index k - 1 of m_omniShadowMaps, and every index lies within its pool.
PoolIndicesInOrder(entry) ==
    /\ \A p \in 1..Len(entry.passes) :
           entry.passes[p].pass = "directional" =>
               /\ p = 1
               /\ entry.passes[p].shadowIndex = 0
               /\ entry.passes[p].shadowIndex < Len(m_shadowMaps)
    /\ \A k \in 1..Len(OmniPasses(entry)) :
           /\ OmniPasses(entry)[k].shadowIndex = k - 1
           /\ OmniPasses(entry)[k].shadowIndex < Len(m_omniShadowMaps)

\* C21: within every rendered span the directional pass uses index 0 of the
\* directional pool and the k-th omni pass uses index k - 1 of the omni pool,
\* every index used is smaller than the size of its pool (the assertions of
\* the two passes hold), and the calls that render views change neither pool.
C21_PoolEntriesClaimedInOrder ==
    /\ [](\A i \in 1..Len(spanLog) : PoolIndicesInOrder(spanLog[i]))
    /\ [][lastCall'.op \in {"renderView", "renderCubeMap", "renderShadowCubeMap"}
              => UNCHANGED <<m_shadowMaps, m_omniShadowMaps>>]_vars

\* C22: while the directional pool is empty (initializeShadowMaps has failed
\* or was never called) the renderer works without shadows: setShadowsEnabled
\* leaves shadows disabled, and a view rendered inside a view set makes no
\* shadow pass and returns RenderOk.
C22_NoShadowsWithoutPool ==
    m_shadowMaps = <<>> =>
        /\ ~m_shadowsEnabled
        /\ \A i \in 1..Len(spanLog) : spanLog[i].passes = <<>>
        /\ (lastCall.op = "renderView" /\ m_universe # NULL) => lastCall.status = "RenderOk"

\* ------------------------------------------------------------------------
\* Cube maps
\* ------------------------------------------------------------------------

CubeMapRendered == lastCall.op \in {"renderCubeMap", "renderShadowCubeMap"}

\* The numbers of the faces the span log was written for, in log order,
\* without repetitions.
RECURSIVE FacesLogged(_)
FacesLogged(log) ==
    IF log = <<>> THEN <<>>
    ELSE LET before == FacesLogged(SubSeq(log, 1, Len(log) - 1))
         IN IF before # <<>> /\ before[Len(before)] = log[Len(log)].face
            THEN before
            ELSE Append(before, log[Len(log)].face)

\* C23: renderCubeMap and renderShadowCubeMap render the view once for each
\* available face, in face order; they return RenderOk when every view
\* returned RenderOk and otherwise the status of the first view that did not
\* (RenderNoViewSet, the only other status of renderView, which the first
\* view returns exactly when no view set is open); on every return no
\* framebuffer is left bound, and renderShadowCubeMap has reset the renderer
\* output to FragmentColor.
C23_CubeMapFacesInOrder ==
    CubeMapRendered =>
        /\ lastCall.status = (IF m_universe = NULL THEN "RenderNoViewSet" ELSE "RenderOk")
        /\ graphics.framebuffer = "backBuffer"
        /\ lastCall.op = "renderShadowCubeMap" => graphics.rendererOutput = "FragmentColor"
        /\ lastCall.status = "RenderOk" =>
               \/ FacesLogged(spanLog) = <<>>
               \/ \E faces \in CubeMapFaces : FacesLogged(spanLog) = [i \in 1..faces |-> i - 1]

\* ------------------------------------------------------------------------
\* The master light list
\* ------------------------------------------------------------------------

\* The Sun's entry followed by an entry for each of the listed entities.
SunAndLightsOf(indices) ==
    <<[lightSource |-> 0]>> \o [i \in 1..Len(indices) |-> [lightSource |-> indices[i]]]

\* The indices of the entities of the open universe, in entity order.
EntityIndices == [n \in 1..Len(universe[m_universe]) |-> n]

\* The master light list changes only in a successful beginViewSet.
MasterListOnlyRebuiltByBeginViewSet ==
    [][m_lightSources' # m_lightSources =>
           lastCall'.op = "beginViewSet" /\ lastCall'.status = "RenderOk"]_vars

\* C24 as stated: in an open view set the master light list holds the Sun's
\* entry (null light source) first and then one entry for every entity that
\* carries a light source, in entity order; only a successful beginViewSet
\* changes the list.
C24_MasterListOfEveryLight ==
    /\ [](m_universe # NULL =>
            m_lightSources =
                SunAndLightsOf(SelectSeq(EntityIndices,
                    LAMBDA n : universe[m_universe][n].lightSource)))
    /\ MasterListOnlyRebuiltByBeginViewSet

\* C24, amended: in an open view set the master light list holds the Sun's
\* entry first and then one entry for every entity that carries a light
\* source and is visible at the time of the view set, in entity order; only
\* a successful beginViewSet changes the list.
C24_MasterListOfVisibleLights ==
    /\ [](m_universe # NULL =>
            m_lightSources =
                SunAndLightsOf(SelectSeq(EntityIndices,
                    LAMBDA n : /\ universe[m_universe][n].lightSource
                               /\ m_currentTime >= universe[m_universe][n].visibleFrom)))
    /\ MasterListOnlyRebuiltByBeginViewSet

\* A view has been rendered in a view set whose universe holds two visible
\* entities with a light source and one with a light source that is not yet
\* visible: the master list still has the entries beginViewSet gave it.
C24_Witness ==
    /\ m_universe # NULL
    /\ lastCall.op = "renderView" /\ lastCall.status = "RenderOk"
    /\ Len(m_lightSources) = 3
    /\ m_lightSources[1].lightSource = 0
    /\ m_lightSources[2].lightSource < m_lightSources[3].lightSource
    /\ \E n \in 1..Len(universe[m_universe]) :
           /\ universe[m_universe][n].lightSource
           /\ m_currentTime < universe[m_universe][n].visibleFrom

\* ------------------------------------------------------------------------
\* The greedy merge of coalesceDepthBuffer
\* ------------------------------------------------------------------------

\* Raw spans i..j (one-based) can form one merged span: the near distance of
\* each span after the first, divided by the far distance of the first, is
\* at least PreferredNearFarRatio.
IsRun(raw, i, j) ==
    \A k \in (i + 1)..j :
        ~ratioLess(raw[k].nearDistance, raw[i].farDistance, PreferredNearFarRatio)

\* The run i..j cannot be extended: the list ends at j, or the next raw span
\* is below the threshold.
RunEnds(raw, i, j) ==
    \/ j = Len(raw)
    \/ ratioLess(raw[j + 1].nearDistance, raw[i].farDistance, PreferredNearFarRatio)

\* The last raw span of the run that starts at i, when the runs start at the
\* positions in starts.
RunEnd(raw, starts, i) ==
    IF \E s \in starts : s > i
    THEN (CHOOSE s \in starts : s > i /\ \A t \in starts : t > i => s <= t) - 1
    ELSE Len(raw)

\* The merged list is the list of the runs of raw that start at starts.
MergedFromRuns(raw, merged, starts) ==
    /\ Cardinality(starts) = Len(merged)
    /\ raw # <<>> => 1 \in starts
    /\ \A i \in starts :
           LET j == RunEnd(raw, starts, i)
               m == Cardinality({s \in starts : s <= i})
           IN /\ IsRun(raw, i, j)
              /\ RunEnds(raw, i, j)
              /\ merged[m].farDistance = raw[i].farDistance
              /\ merged[m].nearDistance = raw[j].nearDistance
              /\ merged[m].backItemIndex = raw[i].backItemIndex
              /\ merged[m].itemCount = SumItemCount(SubSeq(raw, i, j))

\* C25: coalesceDepthBuffer cuts the raw span list into maximal runs of
\* consecutive spans whose near distances stay at least PreferredNearFarRatio
\* times the far distance of the run's first span; each merged span has the
\* far distance and back item index of the first span of its run, the near
\* distance of the last and the sum of the item counts; and the merged spans
\* are contiguous and ordered back to front.
C25_MaximalGreedyMerge ==
    Rendered =>
        /\ \E starts \in SUBSET (1..Len(m_depthBufferSpans)) :
               MergedFromRuns(m_depthBufferSpans, coalescedSpans, starts)
        /\ \A m \in 1..(Len(coalescedSpans) - 1) :
               /\ coalescedSpans[m].nearDistance = coalescedSpans[m + 1].farDistance
               /\ Less(coalescedSpans[m + 1].nearDistance, coalescedSpans[m].nearDistance)

\* coalesceDepthBuffer has combined three raw spans into one merged span and
\* left another raw span on its own.
C25_Witness ==
    /\ Rendered
    /\ Len(m_depthBufferSpans) >= 4
    /\ Len(coalescedSpans) >= 2
    /\ \E starts \in SUBSET (1..Len(m_depthBufferSpans)) :
           /\ MergedFromRuns(m_depthBufferSpans, coalescedSpans, starts)
           /\ \E i \in starts : RunEnd(m_depthBufferSpans, starts, i) >= i + 2
           /\ \E i \in starts : RunEnd(m_depthBufferSpans, starts, i) = i
                                /\ i < Len(m_depthBufferSpans)

\* ------------------------------------------------------------------------
\* The two passes over a span
\* ------------------------------------------------------------------------

\* The entities (by index) that renderDepthBufferSpan has to draw for a span:
\* its own items and the splittable items that overlap it.
EntitiesToDraw(span) ==
    {m_visibleItems[span.backItemIndex - i + 1].entity : i \in 0..(span.itemCount - 1)}
    \cup {m_splittableItems[s].entity : s \in
             {t \in 1..Len(m_splittableItems) :
                 /\ Less(m_splittableItems[t].nearDistance, span.farDistance)
                 /\ Less(span.nearDistance, m_splittableItems[t].farDistance)}}

\* The number of drawItem calls of a pass for an entity.
DrawCount(draws, pass, entity) ==
    Cardinality({d \in 1..Len(draws) : draws[d].pass = pass /\ draws[d].entity = entity})

\* The log entries of a call are in span order, view after view.
LoggedInSpanOrder ==
    \A k \in 1..Len(spanLog) :
        IF k = 1 \/ spanLog[k].span = 0
        THEN spanLog[k].span = 0 /\ (k > 1 => spanLog[k].face = spanLog[k - 1].face + 1)
        ELSE spanLog[k].span = spanLog[k - 1].span + 1 /\ spanLog[k].face = spanLog[k - 1].face

\* C26: in every span that is drawn all draws of the opaque pass come before
\* the draws of the translucent pass, and the spans are drawn one after the
\* other; the opaque pass draws each item of the span and each overlapping
\* splittable item once, the translucent pass draws the non-opaque ones among
\* them once and no opaque one, and nothing else is drawn.
C26_OpaqueThenTranslucent ==
    /\ LoggedInSpanOrder
    /\ \A k \in 1..Len(spanLog) :
        LET draws == spanLog[k].draws
            toDraw == EntitiesToDraw(m_mergedDepthBufferSpans[spanLog[k].span + 1])
        IN /\ \A d, e \in 1..Len(draws) :
                  (draws[d].pass = "OpaquePass" /\ draws[e].pass = "TranslucentPass") => d < e
           /\ \A d \in 1..Len(draws) :
                  /\ draws[d].pass \in {"OpaquePass", "TranslucentPass"}
                  /\ draws[d].entity \in toDraw
           /\ ~spanLog[k].skipped =>
                  \A entity \in toDraw :
                      /\ DrawCount(draws, "OpaquePass", entity) = 1
                      /\ DrawCount(draws, "TranslucentPass", entity) =
                             (IF universe["U1"][entity].isOpaque THEN 0 ELSE 1)

\* A span with an opaque item, a translucent item and an overlapping
\* translucent splittable item has been drawn, after a span farther away.
C26_Witness ==
    \E k \in 2..Len(spanLog) :
        /\ ~spanLog[k].skipped
        /\ ~spanLog[k - 1].skipped
        /\ m_mergedDepthBufferSpans[spanLog[k].span + 1].itemCount >= 2
        /\ \E e \in EntitiesToDraw(m_mergedDepthBufferSpans[spanLog[k].span + 1]) :
               universe["U1"][e].isOpaque
        /\ \E s \in 1..Len(m_splittableItems) :
               /\ ~universe["U1"][m_splittableItems[s].entity].isOpaque
               /\ DrawCount(spanLog[k].draws, "TranslucentPass", m_splittableItems[s].entity) = 1
        /\ \E i \in 1..Len(m_visibleItems) :
               /\ ~universe["U1"][m_visibleItems[i].entity].isOpaque
               /\ DrawCount(spanLog[k].draws, "TranslucentPass", m_visibleItems[i].entity) = 1

\* C27: after a view has been rendered the Sun's entry, the only one with a
\* null light source, is the first entry of the visible light list, so that
\* the directional shadow pass and light 0 are the Sun's and no entry at
\* index 1 or more, whose lightSource renderDepthBufferSpan dereferences,
\* has a null light source.
C27_SunFirstInVisibleLights ==
    ViewSetRendered =>
        /\ m_visibleLightSources # <<>>
        /\ m_visibleLightSources[1].lightSource = 0
        /\ \A i \in 2..Len(m_visibleLightSources) : m_visibleLightSources[i].lightSource # 0

\* ------------------------------------------------------------------------
\* The item indices of the spans
\* ------------------------------------------------------------------------

\* The (zero-based) indices backItemIndex - i, 0 <= i < itemCount, at which
\* renderDepthBufferSpan and the shadow passes read m_visibleItems for a span.
SpanIndices(span) == {span.backItemIndex - i : i \in 0..(span.itemCount - 1)}

\* Every index of every span of the list is an index of m_visibleItems.
IndicesInRange(spans) ==
    \A s \in 1..Len(spans) :
        /\ spans[s].backItemIndex >= 0
        /\ spans[s].itemCount >= 0
        /\ SpanIndices(spans[s]) \subseteq 0..(Len(m_visibleItems) - 1)

\* Every visible item belongs to exactly one span of the list.
IndicesPartitioned(spans) ==
    /\ \A s, t \in 1..Len(spans) :
           s # t => SpanIndices(spans[s]) \cap SpanIndices(spans[t]) = {}
    /\ UNION {SpanIndices(spans[s]) : s \in 1..Len(spans)} = 0..(Len(m_visibleItems) - 1)

\* C28: the item indices of every raw span, of every merged span and of
\* every span of the final list (with its synthetic spans) lie within the
\* visible item list, and the index ranges of the merged spans are disjoint
\* and cover every visible item.
C28_SpanIndicesPartitionItems ==
    /\ IndicesInRange(m_depthBufferSpans)
    /\ IndicesInRange(coalescedSpans)
    /\ IndicesInRange(m_mergedDepthBufferSpans)
    /\ IndicesPartitioned(coalescedSpans)
    /\ IndicesPartitioned(m_mergedDepthBufferSpans)

\* The raw list has an empty span, the merged list is shorter and has a span
\* of two or more items, and the final list has synthetic spans as well.
C28_Witness ==
    /\ Len(m_visibleItems) >= 2
    /\ Len(coalescedSpans) < Len(m_depthBufferSpans)
    /\ Len(coalescedSpans) < Len(m_mergedDepthBufferSpans)
    /\ \E s \in 1..Len(m_mergedDepthBufferSpans) : m_mergedDepthBufferSpans[s].itemCount >= 2
    /\ \E s \in 1..Len(m_depthBufferSpans) : m_depthBufferSpans[s].itemCount = 0

\* C29: an item that is drawn with an omni shadow map count k > 0 is drawn
\* in a span for which exactly k omni shadow passes returned true (rendered
\* and bound a shadow map); a pass that returned false is not counted.
C29_OmniCountIsMapsRendered ==
    \A s \in 1..Len(spanLog) :
        \A d \in 1..Len(spanLog[s].draws) :
            spanLog[s].draws[d].omniShadowMapCount > 0 =>
                spanLog[s].draws[d].omniShadowMapCount =
                    Len(SelectSeq(OmniPasses(spanLog[s]), LAMBDA p : p.returned))

\* ------------------------------------------------------------------------
\* The synthetic front spans
\* ------------------------------------------------------------------------

\* The position in the final list of the last span that is not an appended
\* front span, when backs synthetic spans were put before the merged spans.
LastBeforeFrontSpans(backs) == backs + Len(coalescedSpans)

\* The final list is backs synthetic spans, the merged spans and then the
\* appended front spans; each front span starts where the span before it
\* ends, which is beyond the camera's near distance, reaches down to the
\* larger of the camera's near distance and farDistance / MaxFarNearRatio,
\* and is not empty; the last span reaches the camera's near distance.
FrontSpansAppended(backs) ==
    LET final == m_mergedDepthBufferSpans
    IN /\ Len(final) >= LastBeforeFrontSpans(backs)
       /\ SubSeq(final, backs + 1, LastBeforeFrontSpans(backs)) = coalescedSpans
       /\ \A k \in (LastBeforeFrontSpans(backs) + 1)..Len(final) :
              /\ Less(projection.nearDistance, final[k - 1].nearDistance)
              /\ final[k].itemCount = 0
              /\ final[k].farDistance = final[k - 1].nearDistance
              /\ final[k].nearDistance =
                     Max(projection.nearDistance,
                         Dist(final[k].farDistance.m, final[k].farDistance.e - 1))
              /\ Less(final[k].nearDistance, final[k].farDistance)
       /\ ~Less(projection.nearDistance, final[Len(final)].nearDistance)

\* C30: for a projection with a near distance above zero the loop of
\* renderView that appends front spans ends; the list it reads is not empty,
\* each span it appends has the near distance of the span before it as far
\* distance and max(camera near, farDistance / 10000), which is smaller, as
\* near distance, and afterwards the frontmost span's near distance is at
\* most the camera's near distance.
C30_FrontSpansReachCameraNear ==
    (Rendered /\ m_splittableItems # <<>> /\ Sign(projection.nearDistance) = 1) =>
        /\ m_mergedDepthBufferSpans # <<>>
        /\ \E backs \in 1..2 :
               /\ coalescedSpans = <<>> => backs = 2
               /\ FrontSpansAppended(backs)

\* The loop has appended at least two front spans: one that reaches down to
\* a ten-thousandth of its far distance and a last one that ends at the
\* camera's near distance.
C30_Witness ==
    /\ Rendered
    /\ m_splittableItems # <<>>
    /\ coalescedSpans # <<>>
    /\ \E backs \in 1..2 :
           /\ FrontSpansAppended(backs)
           /\ Len(m_mergedDepthBufferSpans) >= LastBeforeFrontSpans(backs) + 2
    /\ LET final == m_mergedDepthBufferSpans
       IN /\ final[Len(final)].nearDistance = projection.nearDistance
          /\ final[Len(final) - 1].nearDistance =
                 Dist(final[Len(final) - 1].farDistance.m,
                      final[Len(final) - 1].farDistance.e - 1)
          /\ final[Len(final) - 1].itemCount = 0

====
